---- MODULE Spec2Model ----
(***************************************************************************)
(* A model of shark-list's reconciliation engine (SyncService), its run    *)
(* governor (can_sync), the remote list client (TwitterService) and the    *)
(* approval workflow (admin routes).                                       *)
(*                                                                         *)
(* Time is counted in seconds.  The store is a relational database used    *)
(* through one SQLAlchemy session per request: changes made to objects     *)
(* stay pending in the session until commit; a commit whose flush fails    *)
(* rolls the database transaction back and leaves the session inactive,    *)
(* so that every later commit on that session raises until rollback() is   *)
(* called.                                                                 *)
(***************************************************************************)
EXTENDS Integers, Sequences, FiniteSets, TLC

\* ------------------------------------------------------------------ bounds
MaxNow == 300            \* the clock stops advancing here
TickSeconds == 300       \* the clock advances in steps of this many seconds
MaxRuns == 2             \* at most this many SyncLog rows are created
MaxFetch == 2            \* the remote list holds at most this many records
MaxClock == 310          \* SpecCooloff: largest value of now tried
MaxCoolLogs == 2         \* SpecCooloff: most stored runs
MaxRequestId == 3        \* SpecApproval: submission ids 1..MaxRequestId are requested
MaxMemberId == 2         \* SpecApproval: list member ids the operator names
MaxBulk == 2             \* SpecApproval: most ids in one bulk-approve request
MaxSubmissionId == 4     \* SpecApproval: the largest id an INSERT may take
ResetAt == 900           \* the reset instant a 429 response may name
MaxHandleLen == 3        \* SpecCalls: longest text given to normalize_handle

\* ------------------------------------------------------- program constants
SYNC_COOLOFF_MINUTES == 5
SecondsPerMinute == 60
MAX_HANDLE_LENGTH == 15
HTTP_OK == 200
HTTP_BAD_REQUEST == 400
HTTP_FORBIDDEN == 403
HTTP_NOT_FOUND == 404
HTTP_RATE_LIMITED == 429
HTTP_SERVER_ERROR == 500

STATUS_IN_PROGRESS == "in_progress"
STATUS_COMPLETED == "completed"
STATUS_FAILED == "failed"
STATUS_PENDING == "pending"
STATUS_APPROVED == "approved"
STATUS_REJECTED == "rejected"
SOURCE_APP_SUBMITTED == "app_submitted"
SOURCE_PRE_EXISTING == "pre_existing"
SOURCE_BULK_ADDED == "bulk_added"
BULK_EMAIL == "bulk-added@system"

\* ------------------------------------------------------------ value spaces
Procs == {"w1", "w2"}                 \* request workers (gunicorn workers/threads)
MissingKey == "<missing>"             \* the key is absent from the remote record
None == "None"
NoTime == 0 - 1                       \* a NULL timestamp
NoStatus == 0 - 1                     \* no request was sent
NoId == 0                             \* a NULL foreign key
NetworkError == 0                     \* requests raised RequestException

\* The user objects the remote API may return: u1 under its old or its new
\* username, u2, and a malformed u2 without a username.
RemoteRecords ==
  { [id |-> "u1", username |-> "alice", name |-> "Al"],
    [id |-> "u1", username |-> "alice2", name |-> "Al"],
    [id |-> "u2", username |-> "bob", name |-> "Bo"],
    [id |-> "u2", username |-> MissingKey, name |-> "Bo"] }

SeqsUpTo(S, n) == UNION {[1..k -> S] : k \in 0..n}

Range(f) == {f[x] : x \in DOMAIN f}

\* Handles are strings over a small alphabet, written as sequences of
\* characters: <<"a">> is the account u1, <<"b">> the account u2, <<"g">> a
\* handle no account has.
Whitespace == {" "}

Tail2(s) == SubSeq(s, 2, Len(s))

Front(s) == SubSeq(s, 1, Len(s) - 1)

\* str.lstrip(chars)
RECURSIVE LStrip(_, _)
LStrip(s, chars) ==
  IF s # <<>> /\ s[1] \in chars THEN LStrip(Tail2(s), chars) ELSE s

\* str.rstrip()
RECURSIVE RStrip(_, _)
RStrip(s, chars) ==
  IF s # <<>> /\ s[Len(s)] \in chars THEN RStrip(Front(s), chars) ELSE s

\* str.strip()
Strip(s) == RStrip(LStrip(s, Whitespace), Whitespace)

\* str.lower()
Lower(s) == [i \in DOMAIN s |-> IF s[i] = "A" THEN "a" ELSE s[i]]

\* Submission.normalize_handle: handle.lstrip('@').lower().strip()
normalize_handle(handle) == Strip(Lower(LStrip(handle, {"@"})))

\* ------------------------------------------------------------------- state
VARIABLES
  now,              \* datetime.utcnow(), in seconds
  sync_logs,        \* table sync_logs: sequence of rows, the index is the id
  list_members,     \* table list_members: set of rows
  next_member_id,   \* list_members.id sequence
  submissions,      \* table submissions: set of rows
  pc,               \* per worker: where its sync_list_members call stands
  log_id,           \* per worker: id of the SyncLog it created (0: none)
  twitter_members,  \* per worker: what get_list_members returned
  sess,             \* per worker: its SQLAlchemy session
  stats,            \* per worker: the counters of the run
  outcome,          \* per worker: how the call ended
  calls,            \* per worker: remote requests issued by the call
  can_sync_result,  \* SpecCooloff: the last value can_sync returned
  remote_list,      \* the user ids on the remote list
  rate_limit,       \* the operator's Flask session: rate_limit_active/_reset
  last,             \* the response to the last admin request, and what it did
  lookups_ok,       \* per submission id, the get_user_id calls that returned an id
  next_submission_id,
  submit,           \* per worker, the /submit request it is serving
  invocation        \* a call of one function alone: its argument and result

admin_vars == <<remote_list, rate_limit, last, lookups_ok, next_submission_id, submit, invocation>>

sync_vars == <<sync_logs, list_members, next_member_id, pc, log_id,
               twitter_members, sess, stats, outcome, calls>>

vars == <<now, sync_logs, list_members, next_member_id, submissions, pc, log_id,
          twitter_members, sess, stats, outcome, calls, can_sync_result,
          remote_list, rate_limit, last, lookups_ok, next_submission_id, submit, invocation>>

\* ---------------------------------------------------------- Run Governor
\* SyncLog.query.order_by(SyncLog.sync_started_at.desc()).first()
LastSync(logs) ==
  CHOOSE i \in DOMAIN logs :
    \A j \in DOMAIN logs : logs[j].sync_started_at <= logs[i].sync_started_at

CanSync_CompletedOnly(logs, t) ==
  LET finished == SelectSeq(logs, LAMBDA l : l.status = STATUS_COMPLETED) IN
  IF finished = <<>> THEN [allowed |-> TRUE, minutes |-> 0]
  ELSE LET cooloff_delta == SYNC_COOLOFF_MINUTES * SecondsPerMinute
           time_since_last_sync == t - finished[LastSync(finished)].sync_started_at
       IN IF time_since_last_sync < cooloff_delta
          THEN [allowed |-> FALSE,
                minutes |-> (cooloff_delta - time_since_last_sync) \div SecondsPerMinute]
          ELSE [allowed |-> TRUE, minutes |-> 0]

CanSync_NonStrict(logs, t) ==
  IF logs = <<>> THEN [allowed |-> TRUE, minutes |-> 0]
  ELSE LET cooloff_delta == SYNC_COOLOFF_MINUTES * SecondsPerMinute
           time_since_last_sync == t - logs[LastSync(logs)].sync_started_at
       IN IF time_since_last_sync <= cooloff_delta
          THEN [allowed |-> FALSE,
                minutes |-> (cooloff_delta - time_since_last_sync) \div SecondsPerMinute]
          ELSE [allowed |-> TRUE, minutes |-> 0]

\* can_sync(): (allowed, minutes_remaining of the message)
CanSync(logs, t) ==
  IF logs = <<>> THEN [allowed |-> TRUE, minutes |-> 0]
  ELSE LET cooloff_delta == SYNC_COOLOFF_MINUTES * SecondsPerMinute
           time_since_last_sync == t - logs[LastSync(logs)].sync_started_at
       IN IF time_since_last_sync < cooloff_delta
          THEN [allowed |-> FALSE,
                minutes |-> (cooloff_delta - time_since_last_sync) \div SecondsPerMinute]
          ELSE [allowed |-> TRUE, minutes |-> 0]

\* ---------------------------------------------------- Remote List Client
\* The remote answers a get_list_members call with a script of page responses,
\* one per request: status, the page's user objects, and the continuation
\* token ("None": meta carries no next_token).
OkPage(data, token) == [status |-> HTTP_OK, data |-> data, next_token |-> token]
ErrPage(status) == [status |-> status, data |-> <<>>, next_token |-> None]

FetchFaults == {HTTP_RATE_LIMITED, HTTP_SERVER_ERROR, NetworkError}

RemoteLists == SeqsUpTo(RemoteRecords, MaxFetch)

\* The remote serves list L in one page or in two, and may fail either request.
PageScripts ==
  LET one == {<<OkPage(L, None)>> : L \in RemoteLists}
      two == UNION {{<<OkPage(SubSeq(L, 1, k), "t1"), OkPage(SubSeq(L, k + 1, Len(L)), None)>>
                       : k \in 0..Len(L)} : L \in RemoteLists}
      fail1 == {<<ErrPage(f)>> : f \in FetchFaults}
      fail2 == UNION {{<<OkPage(L, "t1"), ErrPage(f)>> : f \in FetchFaults}
                        : L \in RemoteLists}
  IN one \cup two \cup fail1 \cup fail2

FetchError(status) ==
  IF status = NetworkError THEN "Network error while fetching list members"
  ELSE IF status = HTTP_RATE_LIMITED
       THEN "Twitter API rate limit exceeded. Please try again later."
       ELSE "Error fetching list members"

\* The call returns what the first page carries.
FetchLoop_FirstPage(script, i, members) ==
  IF script[i].status # HTTP_OK
  THEN [ok |-> FALSE, members |-> <<>>, error |-> FetchError(script[i].status),
        requests |-> i]
  ELSE [ok |-> TRUE, members |-> script[i].data, error |-> None, requests |-> i]

\* The while loop of get_list_members from request i on, members so far.
RECURSIVE FetchLoop(_, _, _)
FetchLoop(script, i, members) ==
  LET response == script[i] IN
  IF response.status # HTTP_OK
  THEN [ok |-> FALSE, members |-> <<>>, error |-> FetchError(response.status),
        requests |-> i]
  ELSE LET extended == members \o response.data IN
       IF response.next_token \in {None, ""}
       THEN [ok |-> TRUE, members |-> extended, error |-> None, requests |-> i]
       ELSE FetchLoop(script, i + 1, extended)

GetListMembers(script) == FetchLoop(script, 1, <<>>)

\* ------------------------------------------------------------ the store
MemberIds(rows) == {r.id : r \in rows}
MemberUserIds(rows) == {r.twitter_user_id : r \in rows}

\* unique=True on list_members.twitter_user_id
UniqueUserIds(rows) ==
  \A r1, r2 \in rows : r1.twitter_user_id = r2.twitter_user_id => r1 = r2

EmptySession ==
  [active |-> TRUE, orig |-> <<>>, objs |-> <<>>, touched |-> {}, new |-> <<>>,
   deleted |-> {}]

UpdatedRow_NotWritten(row, s) == row

\* The UPDATE of one loaded object: the columns whose value differs from the
\* loaded one, and synced_at (always assigned a fresh utcnow()).
UpdatedRow(row, s) ==
  LET u == row.twitter_user_id IN
  IF u \in s.touched /\ s.orig[u].id = row.id
  THEN [row EXCEPT
          !.username = IF s.objs[u].username # s.orig[u].username
                       THEN s.objs[u].username ELSE @,
          !.name = IF s.objs[u].name # s.orig[u].name THEN s.objs[u].name ELSE @,
          !.synced_at = s.objs[u].synced_at]
  ELSE row

InsertedRows(s, first_id) ==
  {[s.new[i] EXCEPT !.id = first_id + i - 1] : i \in DOMAIN s.new}

Flush_NoConstraint(rows, s, first_id) ==
  [ok |-> \A u \in s.touched : s.orig[u].id \in MemberIds(rows),
   rows |-> {r \in {UpdatedRow(r0, s) : r0 \in rows} \cup InsertedRows(s, first_id) :
               ~ (\E u \in s.deleted : s.orig[u].id = r.id)}]

\* session.flush(): INSERTs and UPDATEs, then DELETEs.  An INSERT that breaks
\* the unique constraint raises IntegrityError, an UPDATE that matches no row
\* raises StaleDataError; a DELETE that matches no row only warns.
Flush(rows, s, first_id) ==
  LET inserted == InsertedRows(s, first_id)
      conflict == \/ \E i \in DOMAIN s.new :
                        s.new[i].twitter_user_id \in MemberUserIds(rows)
                  \/ \E i, j \in DOMAIN s.new :
                        i # j /\ s.new[i].twitter_user_id = s.new[j].twitter_user_id
      stale == \E u \in s.touched : s.orig[u].id \notin MemberIds(rows)
  IN [ok |-> ~conflict /\ ~stale,
      rows |-> {r \in {UpdatedRow(r0, s) : r0 \in rows} \cup inserted :
                  ~ (\E u \in s.deleted : s.orig[u].id = r.id)}]

\* The flush marks approved every Submission a pending ListMember names.
FlushSubmissions_Approves(rows, s) ==
  {IF \E i \in DOMAIN s.new : s.new[i].submission_id = sub.id
   THEN [sub EXCEPT !.status = STATUS_APPROVED] ELSE sub : sub \in rows}

\* What a commit of the run writes to table submissions.  The run loads
\* Submission objects (lines 109-111) and reads their email and id; it assigns
\* no attribute of them, adds none and deletes none, and the relationship
\* ListMember.submission has no cascade: the flush has nothing to write.
FlushSubmissions(rows, s) == rows

\* --------------------------------------------------- Reconciliation Engine
NewStats ==
  [members_added |-> 0, members_updated |-> 0, members_removed |-> 0,
   unchanged |-> 0, added_ids |-> {}, removed_ids |-> {}, failed_at |-> None,
   error |-> None]

NoOutcome == [kind |-> None, error |-> None, result |-> <<>>, failed_at |-> None]

\* The result of a query that found no Submission.
NoSubmission ==
  [id |-> NoId, email |-> None, twitter_handle |-> <<>>, status |-> None,
   twitter_user_id |-> None, processed_at |-> NoTime, notes |-> None]

\* Submission.query.filter_by(twitter_user_id=user_id).first()
SubmissionFor(user_id) ==
  LET found == {sub \in submissions : sub.twitter_user_id = user_id} IN
  IF found = {} THEN NoSubmission
  ELSE CHOOSE sub \in found : \A other \in found : sub.id <= other.id

SourceFor_PreExisting(submission) == SOURCE_PRE_EXISTING

\* lines 113-121: the provenance of a member added by the run
SourceFor(submission) ==
  IF submission # NoSubmission
  THEN IF submission.email = BULK_EMAIL THEN SOURCE_BULK_ADDED
       ELSE SOURCE_APP_SUBMITTED
  ELSE SOURCE_PRE_EXISTING

\* lines 82-134: one iteration of "for twitter_member in twitter_members"
ProcessMember(st, twitter_member, t) ==
  LET user_id == twitter_member.id
      username == twitter_member.username
      name == twitter_member.name
  IN
  IF username = MissingKey THEN [st EXCEPT !.error = "KeyError: 'username'"]
  ELSE IF user_id \in DOMAIN st.objs
  THEN LET db_member == st.objs[user_id]
           updated == db_member.username # username \/ db_member.name # name
       IN [st EXCEPT
             !.objs[user_id] = [db_member EXCEPT !.username = username,
                                                 !.name = name, !.synced_at = t],
             !.touched = @ \cup {user_id},
             !.members_updated = IF updated THEN @ + 1 ELSE @,
             !.unchanged = IF updated THEN @ ELSE @ + 1]
  ELSE LET submission == SubmissionFor(user_id)
           new_member ==
             [id |-> NoId, twitter_user_id |-> user_id, username |-> username,
              name |-> name, source |-> SourceFor(submission),
              submission_id |-> IF submission # NoSubmission THEN submission.id ELSE NoId,
              added_at |-> t, synced_at |-> t]
       IN [st EXCEPT !.new = Append(@, new_member),
                     !.members_added = @ + 1,
                     !.added_ids = @ \cup {user_id}]

\* The loop over twitter_members from index i on; it stops at the first exception.
RECURSIVE ProcessMembers(_, _, _, _)
ProcessMembers(st, members, i, t) ==
  IF i > Len(members) \/ st.error # None THEN st
  ELSE ProcessMembers(ProcessMember(st, members[i], t), members, i + 1, t)

RemovedUserIds_Remote(db_members, twitter_user_ids) ==
  {db_user_id \in DOMAIN db_members : db_user_id \in twitter_user_ids}

\* lines 136-141: the local members no longer on the remote list
RemovedUserIds(db_members, twitter_user_ids) ==
  {db_user_id \in DOMAIN db_members : db_user_id \notin twitter_user_ids}

\* The row is created as completed.
NewSyncLog_Completed(t) ==
  [sync_started_at |-> t, sync_completed_at |-> NoTime, members_fetched |-> 0,
   members_added |-> 0, members_removed |-> 0, members_updated |-> 0,
   status |-> STATUS_COMPLETED, error_message |-> None]

\* lines 58-61: SyncLog(sync_started_at=utcnow(), status=in_progress)
NewSyncLog(t) ==
  [sync_started_at |-> t, sync_completed_at |-> NoTime, members_fetched |-> 0,
   members_added |-> 0, members_removed |-> 0, members_updated |-> 0,
   status |-> STATUS_IN_PROGRESS, error_message |-> None]

Checking == {p \in Procs : pc[p] = "checked"}

SyncCheck_NoGate(p) ==
  /\ pc[p] \in {"idle", "done"}
  /\ Len(sync_logs) + Cardinality(Checking) < MaxRuns
  /\ LET r == CanSync(sync_logs, now) IN
       /\ pc' = [pc EXCEPT ![p] = "checked"]
       /\ outcome' = [outcome EXCEPT ![p] =
                        IF r.allowed THEN NoOutcome
                        ELSE [kind |-> "raised", error |-> "cooloff", result |-> <<>>,
                              failed_at |-> "check"]]
  /\ log_id' = [log_id EXCEPT ![p] = 0]
  /\ twitter_members' = [twitter_members EXCEPT ![p] = <<>>]
  /\ sess' = [sess EXCEPT ![p] = EmptySession]
  /\ stats' = [stats EXCEPT ![p] = NewStats]
  /\ calls' = [calls EXCEPT ![p] = 0]
  /\ UNCHANGED <<now, sync_logs, list_members, next_member_id, submissions,
                 can_sync_result, admin_vars>>

SyncCheck_LogsRefusal(p) ==
  /\ pc[p] \in {"idle", "done"}
  /\ Len(sync_logs) + Cardinality(Checking) < MaxRuns
  /\ LET r == CanSync(sync_logs, now) IN
       /\ pc' = [pc EXCEPT ![p] = IF r.allowed THEN "checked" ELSE "done"]
       /\ outcome' = [outcome EXCEPT ![p] =
                        IF r.allowed THEN NoOutcome
                        ELSE [kind |-> "raised", error |-> "cooloff", result |-> <<>>,
                              failed_at |-> "check"]]
       /\ sync_logs' = IF r.allowed THEN sync_logs
                       ELSE Append(sync_logs,
                                   [NewSyncLog(now) EXCEPT !.status = STATUS_FAILED])
  /\ log_id' = [log_id EXCEPT ![p] = 0]
  /\ twitter_members' = [twitter_members EXCEPT ![p] = <<>>]
  /\ sess' = [sess EXCEPT ![p] = EmptySession]
  /\ stats' = [stats EXCEPT ![p] = NewStats]
  /\ calls' = [calls EXCEPT ![p] = 0]
  /\ UNCHANGED <<now, list_members, next_member_id, submissions,
                 can_sync_result, admin_vars>>

\* lines 52-55: the cooloff gate.  A refused call raises Exception(message).
SyncCheck(p) ==
  /\ pc[p] \in {"idle", "done"}
  /\ Len(sync_logs) + Cardinality(Checking) < MaxRuns
  /\ LET r == CanSync(sync_logs, now) IN
       /\ pc' = [pc EXCEPT ![p] = IF r.allowed THEN "checked" ELSE "done"]
       /\ outcome' = [outcome EXCEPT ![p] =
                        IF r.allowed THEN NoOutcome
                        ELSE [kind |-> "raised", error |-> "cooloff", result |-> <<>>,
                              failed_at |-> "check"]]
  /\ log_id' = [log_id EXCEPT ![p] = 0]
  /\ twitter_members' = [twitter_members EXCEPT ![p] = <<>>]
  /\ sess' = [sess EXCEPT ![p] = EmptySession]
  /\ stats' = [stats EXCEPT ![p] = NewStats]
  /\ calls' = [calls EXCEPT ![p] = 0]
  /\ UNCHANGED <<now, sync_logs, list_members, next_member_id, submissions,
                 can_sync_result, admin_vars>>

SyncCreate_Unsaved(p) ==
  /\ pc[p] = "checked"
  /\ log_id' = [log_id EXCEPT ![p] = Len(sync_logs) + 1]
  /\ pc' = [pc EXCEPT ![p] = "created"]
  /\ UNCHANGED <<now, sync_logs, list_members, next_member_id, submissions,
                 twitter_members, sess, stats, outcome, calls, can_sync_result,
                 admin_vars>>

\* lines 57-63: the SyncLog row is inserted and committed
SyncCreate(p) ==
  /\ pc[p] = "checked"
  /\ sync_logs' = Append(sync_logs, NewSyncLog(now))
  /\ log_id' = [log_id EXCEPT ![p] = Len(sync_logs) + 1]
  /\ pc' = [pc EXCEPT ![p] = "created"]
  /\ UNCHANGED <<now, list_members, next_member_id, submissions, twitter_members,
                 sess, stats, outcome, calls, can_sync_result, admin_vars>>

\* lines 73-141 after a successful fetch: the snapshot of list_members and the
\* diff of the fetched members against it.  The changes stay pending in the
\* session; the session and the counters after the loops are returned.
Diff(members, rows, t) ==
  LET twitter_user_ids == {members[i].id : i \in DOMAIN members}
      db_members == [u \in MemberUserIds(rows) |->
                       CHOOSE m \in rows : m.twitter_user_id = u]
      st0 == [objs |-> db_members, touched |-> {}, new |-> <<>>,
              members_added |-> 0, members_updated |-> 0, unchanged |-> 0,
              added_ids |-> {}, error |-> None]
      st == ProcessMembers(st0, members, 1, t)
      removed == IF st.error = None
                 THEN RemovedUserIds(db_members, twitter_user_ids) ELSE {}
  IN [sess |-> [active |-> TRUE, orig |-> db_members, objs |-> st.objs,
                touched |-> st.touched, new |-> st.new, deleted |-> removed],
      stats |-> [members_added |-> st.members_added,
                 members_updated |-> st.members_updated,
                 members_removed |-> Cardinality(removed),
                 unchanged |-> st.unchanged, added_ids |-> st.added_ids,
                 removed_ids |-> removed,
                 failed_at |-> IF st.error = None THEN None ELSE "diff",
                 error |-> st.error]]

\* lines 164-172: the except block.  It marks the SyncLog failed and commits
\* the session as it stands, without a rollback, then re-raises.  The commit
\* raises instead when the session is inactive or its flush fails, and the
\* SyncLog row then stays as it was.
Handler_NoTimestamp(logs, rows, first_id, s, lid, error, t) ==
  LET f == Flush(rows, s, first_id) IN
  IF s.active /\ f.ok
  THEN [sync_logs |-> [logs EXCEPT ![lid] =
                         [@ EXCEPT !.status = STATUS_FAILED,
                                   !.error_message = error]],
        list_members |-> f.rows, next_member_id |-> first_id + Len(s.new),
        raised |-> error]
  ELSE [sync_logs |-> logs, list_members |-> rows, next_member_id |-> first_id,
        raised |-> IF s.active THEN "IntegrityError" ELSE "PendingRollbackError"]

Handler(logs, rows, first_id, s, lid, error, t) ==
  LET f == Flush(rows, s, first_id) IN
  IF s.active /\ f.ok
  THEN [sync_logs |-> [logs EXCEPT ![lid] =
                         [@ EXCEPT !.status = STATUS_FAILED,
                                   !.error_message = error,
                                   !.sync_completed_at = t]],
        list_members |-> f.rows, next_member_id |-> first_id + Len(s.new),
        raised |-> error]
  ELSE [sync_logs |-> logs, list_members |-> rows, next_member_id |-> first_id,
        raised |-> IF s.active THEN "IntegrityError" ELSE "PendingRollbackError"]

\* The call ends by raising out of the except block.
Raise(p, h, stage) ==
  /\ sync_logs' = h.sync_logs
  /\ list_members' = h.list_members
  /\ next_member_id' = h.next_member_id
  /\ outcome' = [outcome EXCEPT ![p] =
                   [kind |-> "raised", error |-> h.raised, result |-> <<>>,
                    failed_at |-> stage]]
  /\ sess' = [sess EXCEPT ![p] = EmptySession]
  /\ stats' = [stats EXCEPT ![p] = NewStats]
  /\ twitter_members' = [twitter_members EXCEPT ![p] = <<>>]
  /\ pc' = [pc EXCEPT ![p] = "done"]

\* lines 65-141 (and 164-172 on an exception): get_list_members(); on success
\* members_fetched is committed and the diff is computed.  The fetch reads only
\* the remote and the snapshot is the first read of list_members, so both are
\* one step.
SyncFetch(p) ==
  /\ pc[p] = "created"
  /\ calls' = [calls EXCEPT ![p] = @ + 1]
  /\ \E script \in PageScripts :
       LET r == GetListMembers(script)
           fetched == [sync_logs EXCEPT ![log_id[p]].members_fetched = Len(r.members)]
           d == Diff(r.members, list_members, now)
       IN
       IF ~r.ok
       THEN Raise(p, Handler(sync_logs, list_members, next_member_id, EmptySession,
                             log_id[p], r.error, now), "fetch")
       ELSE IF d.stats.error # None
       THEN Raise(p, Handler(fetched, list_members, next_member_id, d.sess,
                             log_id[p], d.stats.error, now), "diff")
       ELSE /\ twitter_members' = [twitter_members EXCEPT ![p] = r.members]
            /\ sync_logs' = fetched
            /\ sess' = [sess EXCEPT ![p] = d.sess]
            /\ stats' = [stats EXCEPT ![p] = d.stats]
            /\ pc' = [pc EXCEPT ![p] = "applied"]
            /\ UNCHANGED <<list_members, next_member_id, outcome>>
  /\ submissions' = FlushSubmissions(submissions, sess[p])
  /\ UNCHANGED <<now, log_id, can_sync_result, admin_vars>>

\* lines 143-162 (and 164-172 on an exception): the counts are set on the
\* SyncLog and everything pending is committed; on success the counts are
\* returned.  store_ok = FALSE is a store error raised by this commit.  A
\* failed commit rolls the transaction back and leaves the session inactive.
SyncCommit(p) ==
  /\ pc[p] = "applied"
  /\ \E store_ok \in BOOLEAN :
       LET f == Flush(list_members, sess[p], next_member_id) IN
       IF store_ok /\ f.ok
       THEN /\ list_members' = f.rows
            /\ next_member_id' = next_member_id + Len(sess[p].new)
            /\ sync_logs' = [sync_logs EXCEPT ![log_id[p]] =
                 [@ EXCEPT !.members_added = stats[p].members_added,
                           !.members_updated = stats[p].members_updated,
                           !.members_removed = stats[p].members_removed,
                           !.sync_completed_at = now,
                           !.status = STATUS_COMPLETED]]
            /\ outcome' = [outcome EXCEPT ![p] =
                 [kind |-> "returned", error |-> None,
                  result |-> [members_fetched |-> sync_logs[log_id[p]].members_fetched,
                              members_added |-> stats[p].members_added,
                              members_updated |-> stats[p].members_updated,
                              members_removed |-> stats[p].members_removed,
                              sync_id |-> log_id[p]],
                  failed_at |-> None]]
            /\ sess' = [sess EXCEPT ![p] = EmptySession]
            /\ stats' = [stats EXCEPT ![p] = NewStats]
            /\ twitter_members' = [twitter_members EXCEPT ![p] = <<>>]
            /\ pc' = [pc EXCEPT ![p] = "done"]
       ELSE Raise(p, Handler(sync_logs, list_members, next_member_id,
                             [EmptySession EXCEPT !.active = FALSE], log_id[p],
                             IF f.ok THEN "OperationalError" ELSE "IntegrityError",
                             now), "commit")
  /\ submissions' = FlushSubmissions(submissions, sess[p])
  /\ UNCHANGED <<now, log_id, calls, can_sync_result, admin_vars>>

\* The worker serving the call is killed mid-run (gunicorn's timeout): the
\* except block never runs, the session is discarded, the committed SyncLog
\* row stays as it is.
Crash(p) ==
  /\ pc[p] \in {"created", "applied"}
  /\ pc' = [pc EXCEPT ![p] = "idle"]
  /\ log_id' = [log_id EXCEPT ![p] = 0]
  /\ twitter_members' = [twitter_members EXCEPT ![p] = <<>>]
  /\ sess' = [sess EXCEPT ![p] = EmptySession]
  /\ stats' = [stats EXCEPT ![p] = NewStats]
  /\ outcome' = [outcome EXCEPT ![p] = NoOutcome]
  /\ calls' = [calls EXCEPT ![p] = 0]
  /\ UNCHANGED <<now, sync_logs, list_members, next_member_id, submissions,
                 can_sync_result, admin_vars>>

\* time passes
Tick ==
  /\ now + TickSeconds <= MaxNow
  /\ now' = now + TickSeconds
  /\ UNCHANGED <<sync_logs, list_members, next_member_id, submissions, pc, log_id,
                 twitter_members, sess, stats, outcome, calls, can_sync_result,
                 admin_vars>>

\* No function is called alone.
NoInvocation == [method |-> None, input |-> <<>>, done |-> FALSE, result |-> <<>>]

NotCalled == [called |-> FALSE, allowed |-> FALSE, minutes |-> 0]
SubmissionIdRange == 1..MaxSubmissionId

\* Stored submissions have the ids 1 and 2; the next INSERT gets the next id.
FirstFreeId == 3

NoSubmit ==
  [pc |-> "idle", email |-> None, handles |-> <<>>, existing |-> NoId,
   result |-> None]

NoRateLimit == [rate_limit_active |-> FALSE, rate_limit_reset |-> 0]
NoRequest ==
  [op |-> None, id |-> NoId, was_pending |-> FALSE, success |-> FALSE,
   http |-> 0, lookups |-> 0, lookup_ok |-> FALSE, adds |-> 0, add_ok |-> FALSE,
   add_status |-> NoStatus, throttled_until |-> NoTime, error |-> None,
   ids |-> <<>>, results |-> <<>>, notes |-> None, remove_status |-> NoStatus,
   add_message |-> None]

\* Submissions present when the engine runs: none, one whose user id was
\* resolved by the approval workflow, or one left by a batch import.
SubmissionRow(id, email, handle, status, user_id) ==
  [id |-> id, email |-> email, twitter_handle |-> handle, status |-> status,
   twitter_user_id |-> user_id, processed_at |-> NoTime, notes |-> None]

SubmissionSetups ==
  { {},
    {SubmissionRow(1, "a@x.org", <<"a">>, STATUS_PENDING, "u1")},
    {SubmissionRow(1, BULK_EMAIL, <<"a">>, STATUS_PENDING, "u1")} }

Init ==
  /\ now = 0
  /\ sync_logs = <<>>
  /\ list_members = {}
  /\ next_member_id = 1
  /\ submissions \in SubmissionSetups
  /\ pc = [p \in Procs |-> "idle"]
  /\ log_id = [p \in Procs |-> 0]
  /\ twitter_members = [p \in Procs |-> <<>>]
  /\ sess = [p \in Procs |-> EmptySession]
  /\ stats = [p \in Procs |-> NewStats]
  /\ outcome = [p \in Procs |-> NoOutcome]
  /\ calls = [p \in Procs |-> 0]
  /\ can_sync_result = NotCalled
  /\ remote_list = {}
  /\ rate_limit = NoRateLimit
  /\ last = NoRequest
  /\ lookups_ok = [id \in SubmissionIdRange |-> 0]
  /\ next_submission_id = FirstFreeId
  /\ submit = [p \in Procs |-> NoSubmit]
  /\ invocation = NoInvocation

Next ==
  \/ Tick
  \/ \E p \in Procs : SyncCheck(p)
  \/ \E p \in Procs : SyncCreate(p)
  \/ \E p \in Procs : SyncFetch(p)
  \/ \E p \in Procs : SyncCommit(p)
  \/ \E p \in Procs : Crash(p)

Spec == Init /\ [][Next]_vars

\* ------------------------------------------------- can_sync() on its own
\* Stored runs the governor may find: any status, started at one of two
\* instants, in either order of insertion.
CoolStarts == {0, 7}

CoolStatuses == {STATUS_IN_PROGRESS, STATUS_COMPLETED, STATUS_FAILED}

CoolLogs ==
  SeqsUpTo({[NewSyncLog(t) EXCEPT !.status = st] :
              t \in CoolStarts, st \in CoolStatuses}, MaxCoolLogs)

InitCooloff ==
  /\ now \in 7..MaxClock
  /\ sync_logs \in CoolLogs
  /\ list_members = {}
  /\ next_member_id = 1
  /\ submissions = {}
  /\ pc = [p \in Procs |-> "idle"]
  /\ log_id = [p \in Procs |-> 0]
  /\ twitter_members = [p \in Procs |-> <<>>]
  /\ sess = [p \in Procs |-> EmptySession]
  /\ stats = [p \in Procs |-> NewStats]
  /\ outcome = [p \in Procs |-> NoOutcome]
  /\ calls = [p \in Procs |-> 0]
  /\ can_sync_result = NotCalled
  /\ remote_list = {}
  /\ rate_limit = NoRateLimit
  /\ last = NoRequest
  /\ lookups_ok = [id \in SubmissionIdRange |-> 0]
  /\ next_submission_id = FirstFreeId
  /\ submit = [p \in Procs |-> NoSubmit]
  /\ invocation = NoInvocation

CallCanSync ==
  /\ ~can_sync_result.called
  /\ LET r == CanSync(sync_logs, now) IN
     can_sync_result' =
       [called |-> TRUE, allowed |-> r.allowed, minutes |-> r.minutes]
  /\ UNCHANGED <<now, submissions, sync_vars, admin_vars>>

NextCooloff == CallCanSync

SpecCooloff == InitCooloff /\ [][NextCooloff]_vars

\* ------------------------------------------------ one function alone
\* Every table empty and every worker idle.
AtRest ==
  /\ now = TickSeconds
  /\ sync_logs = <<>>
  /\ list_members = {}
  /\ next_member_id = 1
  /\ submissions = {}
  /\ pc = [p \in Procs |-> "idle"]
  /\ log_id = [p \in Procs |-> 0]
  /\ twitter_members = [p \in Procs |-> <<>>]
  /\ sess = [p \in Procs |-> EmptySession]
  /\ stats = [p \in Procs |-> NewStats]
  /\ outcome = [p \in Procs |-> NoOutcome]
  /\ calls = [p \in Procs |-> 0]
  /\ can_sync_result = NotCalled
  /\ remote_list = {}
  /\ rate_limit = NoRateLimit
  /\ last = NoRequest
  /\ lookups_ok = [id \in SubmissionIdRange |-> 0]
  /\ next_submission_id = FirstFreeId
  /\ submit = [p \in Procs |-> NoSubmit]

Invocations(method, inputs) ==
  {[NoInvocation EXCEPT !.method = method, !.input = x] : x \in inputs}

\* What the remote may answer to the requests of one get_list_members call:
\* the scripts of a sync run, a token that is the empty string, a page that
\* is never asked for, and lists served in three pages.
FetchScripts ==
  PageScripts
    \cup {<<OkPage(L, "")>> : L \in RemoteLists}
    \cup {<<OkPage(L, None), ErrPage(HTTP_SERVER_ERROR)>> : L \in RemoteLists}
    \cup UNION {{<<OkPage(<<r>>, "t1"), OkPage(L, "t2"), OkPage(<<r>>, None)>>,
                 <<OkPage(<<r>>, "t1"), OkPage(L, "t2"), ErrPage(f)>>}
                  : r \in RemoteRecords, L \in SeqsUpTo(RemoteRecords, 1),
                    f \in FetchFaults}

\* What the diff may meet.  The fetch returns user u1 as stored, renamed, or
\* with another display name, and user u2; the store holds no row, the row of
\* u1, or the rows of both, written by a run at time 0.
DiffInputs ==
  LET records ==
        { [id |-> "u1", username |-> "alice", name |-> "Al"],
          [id |-> "u1", username |-> "alice2", name |-> "Al"],
          [id |-> "u1", username |-> "alice", name |-> "Ally"],
          [id |-> "u2", username |-> "bob", name |-> "Bo"] }
      m1 == [id |-> 1, twitter_user_id |-> "u1", username |-> "alice",
             name |-> "Al", source |-> SOURCE_APP_SUBMITTED, submission_id |-> 1,
             added_at |-> 0, synced_at |-> 0]
      m2 == [id |-> 2, twitter_user_id |-> "u2", username |-> "bob",
             name |-> "Bo", source |-> SOURCE_PRE_EXISTING, submission_id |-> NoId,
             added_at |-> 0, synced_at |-> 0]
  IN {[members |-> members, rows |-> rows] :
        members \in SeqsUpTo(records, MaxFetch), rows \in {{}, {m1}, {m1, m2}}}

CallGetListMembers ==
  /\ invocation.method = "get_list_members"
  /\ ~invocation.done
  /\ invocation' = [invocation EXCEPT !.done = TRUE,
                                      !.result = GetListMembers(invocation.input)]
  /\ UNCHANGED <<now, submissions, can_sync_result, sync_vars, remote_list,
                 rate_limit, last, lookups_ok, next_submission_id, submit>>

\* get_list_members request by request.  The state of its while loop: the
\* requests issued, the pagination_token each one carried (None: the parameter
\* was not sent), members, the token held for the next request, and how the
\* call ended.
NoPages ==
  [requests |-> 0, sent |-> <<>>, members |-> <<>>, pagination_token |-> None,
   ok |-> FALSE, error |-> None]

\* The loop ends after the first page that is served.
FetchRequest_StopsEarly(st, script) ==
  LET response == script[st.requests + 1] IN
  [st EXCEPT !.requests = @ + 1, !.sent = Append(@, None),
             !.members = response.data, !.ok = response.status = HTTP_OK,
             !.error = IF response.status = HTTP_OK THEN None
                       ELSE FetchError(response.status)]

\* lines 203-237: one iteration of "while True"
FetchRequest(st, script) ==
  LET response == script[st.requests + 1]
      param == IF st.pagination_token \in {None, ""} THEN None
               ELSE st.pagination_token
      asked == [st EXCEPT !.requests = @ + 1, !.sent = Append(@, param)]
  IN
  IF response.status # HTTP_OK
  THEN [asked EXCEPT !.members = <<>>, !.error = FetchError(response.status)]
  ELSE [asked EXCEPT !.members = @ \o response.data,
                     !.pagination_token = response.next_token,
                     !.ok = response.next_token \in {None, ""}]

InitPaging ==
  /\ AtRest
  /\ invocation \in {[method |-> "fetch_pages", input |-> script, done |-> FALSE,
                       result |-> NoPages] : script \in FetchScripts}

\* The call issues its next request; it returns or raises when the loop ends.
FetchPage ==
  /\ invocation.method = "fetch_pages"
  /\ ~invocation.done
  /\ \E st \in {FetchRequest(invocation.result, invocation.input)} :
       invocation' = [invocation EXCEPT !.result = st,
                                        !.done = st.ok \/ st.error # None]
  /\ UNCHANGED <<now, submissions, can_sync_result, sync_vars, remote_list,
                 rate_limit, last, lookups_ok, next_submission_id, submit>>

\* A request that was sent is answered: requests.get returns or raises.
SpecPaging == InitPaging /\ [][FetchPage]_vars /\ WF_vars(FetchPage)

\* sync_service.py lines 73-141 and the flush of the commit at line 156, on a
\* fetch result and a store given: the counters, and the rows the commit
\* leaves.
CallDiff ==
  /\ invocation.method = "diff"
  /\ ~invocation.done
  /\ LET d == Diff(invocation.input.members, invocation.input.rows, now)
         f == Flush(invocation.input.rows, d.sess,
                    Cardinality(invocation.input.rows) + 1)
     IN invocation' =
          [invocation EXCEPT
             !.done = TRUE,
             !.result = [stats |-> d.stats, ok |-> d.stats.error = None /\ f.ok,
                         rows |-> IF d.stats.error = None /\ f.ok
                                  THEN f.rows ELSE invocation.input.rows]]
  /\ UNCHANGED <<now, submissions, can_sync_result, sync_vars, remote_list,
                 rate_limit, last, lookups_ok, next_submission_id, submit>>

\* ---------------------------------------------------- Approval Workflow
\* The accounts the remote service knows, by handle.
AccountOf(handle) ==
  IF handle = <<"a">> THEN "u1" ELSE IF handle = <<"b">> THEN "u2" ELSE None

\* What the remote may answer to a request: a status (NetworkError when the
\* request itself fails) and, on 429, the x-rate-limit-reset header (NoTime
\* when the header is missing).
Response(status, reset) == [status |-> status, reset |-> reset, message |-> None]

\* The message of the 403 the remote answers for a user already on the list.
ALREADY_A_MEMBER == "already a member"

Forbidden(message) == [Response(HTTP_FORBIDDEN, NoTime) EXCEPT !.message = message]

ResetTimes == {NoTime, ResetAt}

Faults ==
  {Response(HTTP_SERVER_ERROR, NoTime), Response(NetworkError, NoTime)}
    \cup {Response(HTTP_RATE_LIMITED, t) : t \in ResetTimes}

LookupResponses ==
  {Response(HTTP_OK, NoTime), Response(HTTP_NOT_FOUND, NoTime)} \cup Faults

AddResponses ==
  {Response(HTTP_OK, NoTime), Forbidden(ALREADY_A_MEMBER), Forbidden("not allowed")}
    \cup Faults

\* An exception: what its message says. resets_at is the time a
\* "Resets at ..." message names, NoTime when the message names none.
Error(kind, status, resets_at) ==
  [kind |-> kind, status |-> status, resets_at |-> resets_at]

NoError == Error(None, 0, NoTime)

RateLimitedLater == Error("rate limit exceeded", HTTP_RATE_LIMITED, NoTime)

Returned(value) == [ok |-> TRUE, value |-> value, error |-> NoError]

Raised(error) == [ok |-> FALSE, value |-> None, error |-> error]

\* get_user_id: on 429 the message naming the reset time is raised inside a
\* try whose bare except replaces it by the message without one.
GetUserId(username, response) ==
  IF response.status = NetworkError
  THEN Raised(Error("network error", NetworkError, NoTime))
  ELSE IF response.status = HTTP_NOT_FOUND
  THEN Raised(Error("not found", HTTP_NOT_FOUND, NoTime))
  ELSE IF response.status = HTTP_RATE_LIMITED
  THEN LET in_try == IF response.reset # NoTime
                     THEN Raised(Error("rate limit exceeded", HTTP_RATE_LIMITED,
                                       response.reset))
                     ELSE Raised(Error("ValueError", HTTP_RATE_LIMITED, NoTime))
       IN IF in_try.ok THEN in_try ELSE Raised(RateLimitedLater)
  ELSE IF response.status # HTTP_OK
  THEN Raised(Error("api error", response.status, NoTime))
  ELSE IF AccountOf(LStrip(username, {"@"})) = None
  THEN Raised(Error("not found", HTTP_OK, NoTime))
  ELSE Returned(AccountOf(LStrip(username, {"@"})))

\* Every 403 is an error.
AddToList_ForbiddenFails(user_id, response, members) ==
  IF response.status = HTTP_OK THEN Returned(members \cup {user_id})
  ELSE Raised(Error("api error", response.status, NoTime))

AddToList_IgnoresRateLimit(user_id, response, members) ==
  IF response.status = NetworkError
  THEN Raised(Error("network error", NetworkError, NoTime))
  ELSE IF response.status = HTTP_FORBIDDEN /\ response.message = ALREADY_A_MEMBER
  THEN Returned(members)
  ELSE IF response.status \notin {HTTP_OK, HTTP_RATE_LIMITED}
  THEN Raised(Error("api error", response.status, NoTime))
  ELSE Returned(members \cup {user_id})

\* add_to_list: 403 "already a member" counts as success.
AddToList(user_id, response, members) ==
  IF response.status = NetworkError
  THEN Raised(Error("network error", NetworkError, NoTime))
  ELSE IF response.status = HTTP_RATE_LIMITED
  THEN Raised(RateLimitedLater)
  ELSE IF response.status = HTTP_FORBIDDEN /\ response.message = ALREADY_A_MEMBER
  THEN Returned(members)
  ELSE IF response.status # HTTP_OK
  THEN Raised(Error("api error", response.status, NoTime))
  ELSE Returned(members \cup {user_id})

\* Two runs of sync_service.py lines 73-156 one after the other, the second a
\* cooloff interval after the first, on the same fetch result, nothing else
\* writing the store in between: the counters of each and the rows each leaves.
\* The second run is made only when the first one committed.
CallSyncTwice ==
  /\ invocation.method = "sync_twice"
  /\ ~invocation.done
  /\ LET members == invocation.input.members
         rows == invocation.input.rows
         first_id == Cardinality(rows) + 1
         d1 == Diff(members, rows, now)
         f1 == Flush(rows, d1.sess, first_id)
         ok1 == d1.stats.error = None /\ f1.ok
         later == now + SYNC_COOLOFF_MINUTES * SecondsPerMinute
         d2 == Diff(members, f1.rows, later)
         f2 == Flush(f1.rows, d2.sess, first_id + Len(d1.sess.new))
     IN invocation' =
          [invocation EXCEPT
             !.done = TRUE,
             !.result =
               IF ok1
               THEN [ok |-> TRUE, stats |-> d1.stats, rows |-> f1.rows,
                     again |-> [ok |-> d2.stats.error = None /\ f2.ok,
                                stats |-> d2.stats, rows |-> f2.rows,
                                at |-> later]]
               ELSE [ok |-> FALSE, stats |-> d1.stats, rows |-> rows,
                     again |-> <<>>]]
  /\ UNCHANGED <<now, submissions, can_sync_result, sync_vars, remote_list,
                 rate_limit, last, lookups_ok, next_submission_id, submit>>

\* Submission.normalize_handle called alone, and called again on what it
\* returned, on every text of the sigil, the blank and the letter a in both
\* cases.
CallNormalizeHandle ==
  /\ invocation.method = "normalize_handle"
  /\ ~invocation.done
  /\ invocation' =
       [invocation EXCEPT
          !.done = TRUE,
          !.result = [once |-> normalize_handle(invocation.input),
                      twice |-> normalize_handle(normalize_handle(invocation.input))]]
  /\ UNCHANGED <<now, submissions, can_sync_result, sync_vars, remote_list,
                 rate_limit, last, lookups_ok, next_submission_id, submit>>

\* The attributes of class TwitterService.
TwitterServiceMethods ==
  {"get_user_id", "add_to_list", "remove_from_list", "get_list_info",
   "get_list_members"}

\* store_rate_limit_info: twitter_service.get_rate_limit_info()
StoreRateLimitInfo ==
  IF "get_rate_limit_info" \in TwitterServiceMethods
  THEN Returned(None)
  ELSE Raised(Error("AttributeError", 0, NoTime))

ParseRateLimitReset(error) ==
  IF error.resets_at # NoTime THEN error.resets_at ELSE 0

\* get_user_id called alone, and what parse_rate_limit_reset reads in the
\* message it raised: a handle with an account, the same with its @, a handle
\* without account, against every answer of the remote.
LookupInputs ==
  {[username |-> username, response |-> response] :
     username \in {<<"a">>, <<"@", "a">>, <<"z">>}, response \in LookupResponses}

CallGetUserId ==
  /\ invocation.method = "get_user_id"
  /\ ~invocation.done
  /\ LET r == GetUserId(invocation.input.username, invocation.input.response)
     IN invocation' =
          [invocation EXCEPT
             !.done = TRUE,
             !.result = [ok |-> r.ok, value |-> r.value, error |-> r.error,
                         reset |-> IF r.ok THEN 0
                                   ELSE ParseRateLimitReset(r.error)]]
  /\ UNCHANGED <<now, submissions, can_sync_result, sync_vars, remote_list,
                 rate_limit, last, lookups_ok, next_submission_id, submit>>

InitCalls ==
  /\ AtRest
  /\ invocation \in Invocations("get_list_members", FetchScripts)
                      \cup Invocations("diff", DiffInputs)
                      \cup Invocations("get_user_id", LookupInputs)
                      \cup Invocations("sync_twice", DiffInputs)
                      \cup Invocations("normalize_handle",
                                       SeqsUpTo({"@", " ", "A", "a"}, MaxHandleLen))

NextCalls ==
  \/ CallGetListMembers
  \/ CallDiff
  \/ CallGetUserId
  \/ CallSyncTwice
  \/ CallNormalizeHandle

SpecCalls == InitCalls /\ [][NextCalls]_vars

\* the except block of approve: the session state after a failure
AfterFailure(error, rl) ==
  IF error.kind = "rate limit exceeded" /\ ParseRateLimitReset(error) # 0
  THEN [rate_limit_active |-> TRUE,
        rate_limit_reset |-> ParseRateLimitReset(error)]
  ELSE rl

\* Submission.approve
SubmissionApprove(sub, user_id, t) ==
  [sub EXCEPT !.status = STATUS_APPROVED, !.twitter_user_id = user_id,
              !.processed_at = t]

SubmissionReject_NoTimestamp(sub, notes, t) ==
  [sub EXCEPT !.status = STATUS_REJECTED,
              !.notes = IF notes # None THEN notes ELSE @]

\* Submission.reject
SubmissionReject(sub, notes, t) ==
  [sub EXCEPT !.status = STATUS_REJECTED, !.processed_at = t,
              !.notes = IF notes # None THEN notes ELSE @]

IsPending_Always(sub) == TRUE

\* submission.status != Submission.STATUS_PENDING guards approve and reject
IsPending(sub) == sub.status = STATUS_PENDING

Request(op, id) == [NoRequest EXCEPT !.op = op, !.id = id]

CacheUserId_Uncommitted(sub, user_id) == sub

\* submission.twitter_user_id = user_id; db.session.commit()
CacheUserId(sub, user_id) == [sub EXCEPT !.twitter_user_id = user_id]

\* The submission is marked approved without a call to add_to_list.
ApproveOne_WithoutAdd(sub, lookup, add, t, remote, rl) ==
  LET req == Request("approve", sub.id) IN
  IF ~IsPending(sub)
  THEN [submission |-> sub, remote_list |-> remote, rate_limit |-> rl,
        last |-> [req EXCEPT !.http = HTTP_BAD_REQUEST,
                             !.error = "already processed"]]
  ELSE [submission |-> SubmissionApprove(sub, "u1", t), remote_list |-> remote,
        rate_limit |-> rl,
        last |-> [req EXCEPT !.was_pending = TRUE, !.success = TRUE,
                             !.http = HTTP_OK]]

\* The body of approve() for a loaded submission, against the remote list
\* `remote` and the session state `rl`: the stored submission, the remote list,
\* the session and the response it ends with.  bulk_approve runs the same
\* statements for each id.
ApproveOne(sub, lookup, add, t, remote, rl) ==
  LET req == Request("approve", sub.id)
      stay(s, r, error) ==
        [submission |-> s, remote_list |-> remote,
         rate_limit |-> AfterFailure(error, rl),
         last |-> [r EXCEPT !.http = HTTP_SERVER_ERROR, !.error = error.kind]]
  IN
  IF ~IsPending(sub)
  THEN [submission |-> sub, remote_list |-> remote,
        rate_limit |-> rl,
        last |-> [req EXCEPT !.http = HTTP_BAD_REQUEST, !.error = "already processed"]]
  ELSE
  LET cached == sub.twitter_user_id # None
      found == IF cached THEN Returned(sub.twitter_user_id)
               ELSE GetUserId(sub.twitter_handle, lookup)
      req1 == [req EXCEPT !.was_pending = TRUE,
                          !.lookups = IF cached THEN 0 ELSE 1,
                          !.lookup_ok = found.ok,
                          !.throttled_until =
                             IF ~cached /\ lookup.status = HTTP_RATE_LIMITED
                             THEN lookup.reset ELSE NoTime]
  IN
  IF ~found.ok THEN stay(sub, req1, found.error)
  ELSE
  LET user_id == found.value
      sub1 == CacheUserId(sub, user_id)
      added == AddToList(user_id, add, remote)
      req2 == [req1 EXCEPT !.adds = 1, !.add_ok = added.ok,
                           !.add_status = add.status,
                           !.add_message = add.message,
                           !.throttled_until =
                              IF add.status = HTTP_RATE_LIMITED
                              THEN add.reset ELSE NoTime]
  IN
  IF ~added.ok THEN stay(sub1, req2, added.error)
  ELSE
  LET stored == StoreRateLimitInfo IN
  IF ~stored.ok
  THEN [stay(sub1, req2, stored.error) EXCEPT !.remote_list = added.value]
  ELSE [submission |-> SubmissionApprove(sub1, user_id, t),
        remote_list |-> added.value,
        rate_limit |-> rl,
        last |-> [req2 EXCEPT !.success = TRUE, !.http = HTTP_OK]]

\* approve(), after the submission was found
ApproveFlow(sub, lookup, add, t) ==
  ApproveOne(sub, lookup, add, t, remote_list, rate_limit)

\* The count of get_user_id calls that returned an id, after request r.
CountLookup(counts, r) ==
  IF r.lookups = 1 /\ r.lookup_ok /\ r.id \in DOMAIN counts
  THEN [counts EXCEPT ![r.id] = @ + 1] ELSE counts

SubmissionIds == {sub.id : sub \in submissions}

\* The remote says "already a member" only of a user who is on the list.
RemoteCanAnswer(sub, add, remote) ==
  add.message = ALREADY_A_MEMBER =>
    (IF sub.twitter_user_id # None THEN sub.twitter_user_id
     ELSE AccountOf(sub.twitter_handle)) \in remote

Approve(id) ==
  /\ \/ /\ id \notin SubmissionIds
        /\ last' = [Request("approve", id) EXCEPT !.http = HTTP_NOT_FOUND]
        /\ UNCHANGED <<submissions, remote_list, rate_limit, lookups_ok>>
     \/ \E sub \in submissions, lookup \in LookupResponses, add \in AddResponses :
          /\ sub.id = id
          /\ RemoteCanAnswer(sub, add, remote_list)
          /\ LET r == ApproveFlow(sub, lookup, add, now) IN
             /\ submissions' = (submissions \ {sub}) \cup {r.submission}
             /\ remote_list' = r.remote_list
             /\ rate_limit' = r.rate_limit
             /\ last' = r.last
             /\ lookups_ok' = CountLookup(lookups_ok, r.last)
  /\ UNCHANGED <<now, sync_vars, can_sync_result, next_submission_id, submit, invocation>>

\* The submission ids the operator's requests name.
RequestIds == 1..MaxRequestId

\* What the remote answers to the two calls bulk_approve may make for one id.
BulkAnswers ==
  { [lookup |-> Response(HTTP_OK, NoTime), add |-> Response(HTTP_OK, NoTime)],
    [lookup |-> Response(HTTP_NOT_FOUND, NoTime), add |-> Response(HTTP_OK, NoTime)],
    [lookup |-> Response(HTTP_OK, NoTime), add |-> Response(HTTP_RATE_LIMITED, ResetAt)] }

\* The bodies of the bulk-approve requests tried: one that is not JSON, and
\* JSON bodies naming up to MaxBulk ids, repeated ids included.
BulkRequests ==
  {[is_json |-> FALSE, ids |-> <<>>]}
    \cup {[is_json |-> TRUE, ids |-> ids] : ids \in SeqsUpTo(RequestIds, MaxBulk)}

\* One entry of results['success'] or results['failed'], and the remote
\* calls made for it.
BulkResult(id, r) ==
  [id |-> id, ok |-> r.success, error |-> r.error, lookups |-> r.lookups,
   adds |-> r.adds]

BulkItem(id, answer, st, t) ==
  LET found == {sub \in st.submissions : sub.id = id} IN
  IF found = {}
  THEN [st EXCEPT !.results =
          Append(@, BulkResult(id, [Request("approve", id) EXCEPT
                                      !.error = "not found"]))]
  ELSE LET sub == CHOOSE x \in found : TRUE
           r == ApproveOne(sub, answer.lookup, answer.add, t, st.remote_list,
                           st.rate_limit)
       IN [submissions |-> (st.submissions \ {sub}) \cup {r.submission},
           remote_list |-> r.remote_list,
           rate_limit |-> r.rate_limit,
           lookups_ok |-> CountLookup(st.lookups_ok, r.last),
           results |-> Append(st.results, BulkResult(id, r.last))]

RECURSIVE BulkLoop_StopAtFailure(_, _, _, _, _)
BulkLoop_StopAtFailure(ids, answers, i, st, t) ==
  IF i > Len(ids) THEN st
  ELSE LET next == BulkItem(ids[i], answers[i], st, t) IN
       IF next.results[i].ok
       THEN BulkLoop_StopAtFailure(ids, answers, i + 1, next, t)
       ELSE next

\* for submission_id in submission_ids, from the i-th id on
RECURSIVE BulkLoop(_, _, _, _, _)
BulkLoop(ids, answers, i, st, t) ==
  IF i > Len(ids) THEN st
  ELSE BulkLoop(ids, answers, i + 1, BulkItem(ids[i], answers[i], st, t), t)

BulkApprove(is_json, ids) ==
  /\ IF ~is_json \/ ids = <<>>
     THEN /\ last' = [Request("bulk_approve", NoId) EXCEPT !.http = HTTP_BAD_REQUEST]
          /\ UNCHANGED <<submissions, remote_list, rate_limit, lookups_ok>>
     ELSE \E answers \in [DOMAIN ids -> BulkAnswers] :
            \E st \in {BulkLoop(ids, answers, 1,
                                [submissions |-> submissions,
                                 remote_list |-> remote_list,
                                 rate_limit |-> rate_limit,
                                 lookups_ok |-> lookups_ok,
                                 results |-> <<>>], now)} :
               /\ submissions' = st.submissions
               /\ remote_list' = st.remote_list
               /\ rate_limit' = st.rate_limit
               /\ lookups_ok' = st.lookups_ok
               /\ last' = [Request("bulk_approve", NoId) EXCEPT
                             !.http = HTTP_OK,
                             !.success = \A i \in DOMAIN st.results : st.results[i].ok,
                             !.ids = ids, !.results = st.results]
  /\ UNCHANGED <<now, sync_vars, can_sync_result, next_submission_id, submit, invocation>>

Reject(id, notes) ==
  /\ \/ /\ id \notin SubmissionIds
        /\ last' = [Request("reject", id) EXCEPT !.http = HTTP_NOT_FOUND]
        /\ UNCHANGED submissions
     \/ \E sub \in submissions :
          /\ sub.id = id
          /\ IF ~IsPending(sub)
             THEN /\ last' = [Request("reject", id) EXCEPT
                                !.http = HTTP_BAD_REQUEST, !.error = "already processed"]
                  /\ UNCHANGED submissions
             ELSE /\ submissions' =
                       (submissions \ {sub}) \cup {SubmissionReject(sub, notes, now)}
                  /\ last' = [Request("reject", id) EXCEPT
                                !.was_pending = TRUE, !.success = TRUE,
                                !.http = HTTP_OK, !.notes = notes]
  /\ UNCHANGED <<now, sync_vars, can_sync_result, remote_list, rate_limit,
                 lookups_ok, next_submission_id, submit, invocation>>

\* What the remote answers to the DELETE of a member.
RemoveResponses ==
  {Response(HTTP_OK, NoTime), Response(HTTP_NOT_FOUND, NoTime),
   Response(HTTP_SERVER_ERROR, NoTime), Response(NetworkError, NoTime),
   Response(HTTP_RATE_LIMITED, NoTime)}

\* A 404 is an error like any other status that is not 200.
RemoveFromList_Strict(user_id, response, members) ==
  IF response.status = HTTP_OK THEN Returned(members \ {user_id})
  ELSE Raised(Error("api error", response.status, NoTime))

\* A rate-limit answer is taken for a removal done.
RemoveFromList_IgnoresRateLimit(user_id, response, members) ==
  IF response.status \in {HTTP_OK, HTTP_RATE_LIMITED}
  THEN Returned(members \ {user_id})
  ELSE IF response.status = HTTP_NOT_FOUND THEN Returned(members)
  ELSE Raised(Error("api error", response.status, NoTime))

\* remove_from_list: the remote list after the call, or the exception.  A 404
\* counts as removed.
RemoveFromList(user_id, response, members) ==
  IF response.status = NetworkError
  THEN Raised(Error("network error", NetworkError, NoTime))
  ELSE IF response.status = HTTP_RATE_LIMITED
  THEN Raised(RateLimitedLater)
  ELSE IF response.status = HTTP_NOT_FOUND
  THEN Returned(members)
  ELSE IF response.status # HTTP_OK
  THEN Raised(Error("api error", response.status, NoTime))
  ELSE Returned(members \ {user_id})

REMOVED_NOTES == "Removed from list by admin"

\* The removal sets the submission back to pending.
RemovedSubmission_Pending(sub, t) ==
  [sub EXCEPT !.status = STATUS_PENDING, !.notes = REMOVED_NOTES]

\* submission.reject(notes='Removed from list by admin')
RemovedSubmission(sub, t) == SubmissionReject(sub, REMOVED_NOTES, t)

\* POST /remove/<submission_id>
Remove(id) ==
  /\ \/ /\ id \notin SubmissionIds
        /\ last' = [Request("remove", id) EXCEPT !.http = HTTP_NOT_FOUND]
        /\ UNCHANGED <<submissions, remote_list>>
     \/ \E sub \in submissions :
          /\ sub.id = id
          /\ IF sub.status # STATUS_APPROVED \/ sub.twitter_user_id = None
             THEN /\ last' = [Request("remove", id) EXCEPT !.http = HTTP_BAD_REQUEST]
                  /\ UNCHANGED <<submissions, remote_list>>
             ELSE \E response \in RemoveResponses :
                    LET r == RemoveFromList(sub.twitter_user_id, response, remote_list) IN
                    IF r.ok
                    THEN /\ remote_list' = r.value
                         /\ submissions' =
                              (submissions \ {sub}) \cup {RemovedSubmission(sub, now)}
                         /\ last' = [Request("remove", id) EXCEPT
                                       !.success = TRUE, !.http = HTTP_OK,
                                       !.remove_status = response.status]
                    ELSE /\ last' = [Request("remove", id) EXCEPT
                                       !.http = HTTP_SERVER_ERROR,
                                       !.error = r.error.kind,
                                       !.remove_status = response.status]
                         /\ UNCHANGED <<submissions, remote_list>>
  /\ UNCHANGED <<now, sync_vars, can_sync_result, rate_limit, lookups_ok,
                 next_submission_id, submit, invocation>>

\* The ids of ListMember rows the operator's requests name.
MemberRequestIds == 1..MaxMemberId

\* POST /remove-member/<member_id>
RemoveMember(member_id) ==
  /\ \/ /\ \A member \in list_members : member.id # member_id
        /\ last' = [Request("remove_member", member_id) EXCEPT !.http = HTTP_NOT_FOUND]
        /\ UNCHANGED <<submissions, remote_list, list_members>>
     \/ \E member \in list_members, response \in RemoveResponses :
          /\ member.id = member_id
          /\ LET r == RemoveFromList(member.twitter_user_id, response, remote_list) IN
             IF r.ok
             THEN /\ remote_list' = r.value
                  /\ list_members' = list_members \ {member}
                  /\ submissions' =
                       {IF sub.id = member.submission_id
                        THEN RemovedSubmission(sub, now) ELSE sub : sub \in submissions}
                  /\ last' = [Request("remove_member", member_id) EXCEPT
                                !.success = TRUE, !.http = HTTP_OK,
                                !.remove_status = response.status]
             ELSE /\ last' = [Request("remove_member", member_id) EXCEPT
                                !.http = HTTP_SERVER_ERROR, !.error = r.error.kind,
                                !.remove_status = response.status]
                  /\ UNCHANGED <<submissions, remote_list, list_members>>
  /\ UNCHANGED <<now, sync_logs, next_member_id, pc, log_id, twitter_members, sess,
                 stats, outcome, calls, can_sync_result, rate_limit, lookups_ok,
                 next_submission_id, submit, invocation>>

\* ------------------------------------------------------- public intake
\* A handle of 16 characters.
LongLine == [i \in 1..(MAX_HANDLE_LENGTH + 1) |-> "a"]

\* Lines a visitor may type into the form: a handle in upper case, with the
\* sigil, with sigils around a blank, a lone sigil, and a handle too long.
RawLines ==
  { <<"A">>, <<"@", "a">>, <<"@", " ", "@", "a">>, <<"@">>, LongLine }

\* Texts of the form: no line, one line, or a handle given twice.
Forms ==
  {<<>>} \cup {<<line>> : line \in RawLines} \cup {<< <<"@", "a">>, <<"A">> >>}

Emails == {"s@x.org", ""}

\* validate_email accepts the address
EmailValid(email) == email # ""

\* lines 45-53: the handles of the text from line i on, or the 400 answer for
\* a handle that is too long
RECURSIVE ParseLines(_, _, _)
ParseLines(lines, i, handles) ==
  IF i > Len(lines) THEN [ok |-> TRUE, handles |-> handles]
  ELSE LET handle == LStrip(Strip(lines[i]), {"@"}) IN
       IF handle = <<>> THEN ParseLines(lines, i + 1, handles)
       ELSE IF Len(handle) < 1 \/ Len(handle) > MAX_HANDLE_LENGTH
       THEN [ok |-> FALSE, handles |-> <<>>]
       ELSE ParseLines(lines, i + 1, Append(handles, handle))

ExistingSubmission_None(rows, normalized_handle) == NoSubmission

\* Submission.query.filter_by(twitter_handle=normalized_handle).first()
ExistingSubmission(rows, normalized_handle) ==
  LET found == {sub \in rows : sub.twitter_handle = normalized_handle} IN
  IF found = {} THEN NoSubmission
  ELSE CHOOSE sub \in found : \A other \in found : sub.id <= other.id

\* The request moves on to its next handle, or ends.
NextHandle(r, result) ==
  [r EXCEPT !.result = result, !.handles = Tail(r.handles), !.existing = NoId,
            !.pc = IF Tail(r.handles) = <<>> THEN "idle" ELSE "lookup"]

\* lines 19-57: validation and parsing
SubmitStart(p, email, lines) ==
  /\ submit[p].pc = "idle"
  /\ next_submission_id <= MaxSubmissionId
  /\ LET parsed == ParseLines(lines, 1, <<>>) IN
     submit' = [submit EXCEPT ![p] =
                  IF ~EmailValid(email) \/ lines = <<>> \/ ~parsed.ok
                     \/ parsed.handles = <<>>
                  THEN [NoSubmit EXCEPT !.result = "invalid"]
                  ELSE [NoSubmit EXCEPT !.pc = "lookup", !.email = email,
                                        !.handles = parsed.handles]]
  /\ UNCHANGED <<now, sync_vars, can_sync_result, submissions, remote_list,
                 rate_limit, last, lookups_ok, next_submission_id, invocation>>

\* lines 66-97: the lookup of the handle's submission.  A rejected one is
\* deleted in the transaction the INSERT will commit.
SubmitLookup(p) ==
  /\ submit[p].pc = "lookup"
  /\ LET r == submit[p]
         existing_submission ==
           ExistingSubmission(submissions, normalize_handle(Head(r.handles)))
     IN submit' = [submit EXCEPT ![p] =
          IF existing_submission # NoSubmission
             /\ existing_submission.status \in {STATUS_PENDING, STATUS_APPROVED}
          THEN NextHandle(r, "skipped")
          ELSE [r EXCEPT !.pc = "insert", !.result = None,
                         !.existing = existing_submission.id]]
  /\ UNCHANGED <<now, sync_vars, can_sync_result, submissions, remote_list,
                 rate_limit, last, lookups_ok, next_submission_id, invocation>>

\* db.session.commit() of the DELETE and the INSERT: the rows after it, or the
\* IntegrityError of unique=True on submissions.twitter_handle
CommitSubmission_NoConstraint(rows, deleted_id, row) ==
  [ok |-> TRUE, rows |-> {sub \in rows : sub.id # deleted_id} \cup {row}]

CommitSubmission(rows, deleted_id, row) ==
  LET kept == {sub \in rows : sub.id # deleted_id} IN
  IF \E sub \in kept : sub.twitter_handle = row.twitter_handle
  THEN [ok |-> FALSE, rows |-> rows]
  ELSE [ok |-> TRUE, rows |-> kept \cup {row}]

\* lines 99-115: the new Submission is added and committed.  Deleting a
\* submission clears the submission_id of the ListMember that refers to it.
SubmitInsert(p) ==
  /\ submit[p].pc = "insert"
  /\ LET r == submit[p]
         row == SubmissionRow(next_submission_id, r.email,
                              normalize_handle(Head(r.handles)), STATUS_PENDING, None)
         c == CommitSubmission(submissions, r.existing, row)
     IN /\ submissions' = c.rows
        /\ next_submission_id' = IF c.ok THEN next_submission_id + 1
                                 ELSE next_submission_id
        /\ list_members' =
             IF c.ok /\ r.existing # NoId
             THEN {IF m.submission_id = r.existing
                   THEN [m EXCEPT !.submission_id = NoId] ELSE m : m \in list_members}
             ELSE list_members
        /\ submit' = [submit EXCEPT ![p] =
                        NextHandle(r, IF c.ok THEN "success" ELSE "failed")]
  /\ UNCHANGED <<now, sync_logs, next_member_id, pc, log_id, twitter_members, sess,
                 stats, outcome, calls, can_sync_result, remote_list, rate_limit,
                 last, lookups_ok, invocation>>

\* Submissions awaiting the operator, and the remote list they meet.
ApprovalSetups ==
  { {SubmissionRow(1, "a@x.org", <<"a">>, STATUS_PENDING, None),
     SubmissionRow(2, "g@x.org", <<"g">>, STATUS_PENDING, None)},
    {SubmissionRow(1, "a@x.org", <<"a">>, STATUS_PENDING, "u1"),
     SubmissionRow(2, "b@x.org", <<"b">>, STATUS_PENDING, None)},
    {[SubmissionRow(1, "a@x.org", <<"a">>, STATUS_APPROVED, "u1")
        EXCEPT !.processed_at = 0],
     SubmissionRow(2, "b@x.org", <<"b">>, STATUS_PENDING, None)} }

\* The ListMember a completed sync stored for user u1, linked to the submission
\* that has this user id.
LinkedMember(sub) ==
  [id |-> 1, twitter_user_id |-> sub.twitter_user_id, username |-> "alice",
   name |-> "Al", source |-> SOURCE_APP_SUBMITTED, submission_id |-> sub.id,
   added_at |-> 0, synced_at |-> 0]

InitApproval ==
  /\ now = 0
  /\ sync_logs = <<>>
  /\ list_members = {}
  /\ next_member_id = 1
  /\ submissions \in ApprovalSetups
  /\ pc = [p \in Procs |-> "idle"]
  /\ log_id = [p \in Procs |-> 0]
  /\ twitter_members = [p \in Procs |-> <<>>]
  /\ sess = [p \in Procs |-> EmptySession]
  /\ stats = [p \in Procs |-> NewStats]
  /\ outcome = [p \in Procs |-> NoOutcome]
  /\ calls = [p \in Procs |-> 0]
  /\ can_sync_result = NotCalled
  /\ remote_list \in {{}, {"u1"}}
  /\ \A sub \in submissions :
       sub.status = STATUS_APPROVED => sub.twitter_user_id \in remote_list
  /\ rate_limit = NoRateLimit
  /\ last = NoRequest
  /\ lookups_ok = [id \in SubmissionIdRange |-> 0]
  /\ next_submission_id = FirstFreeId
  /\ submit = [p \in Procs |-> NoSubmit]
  /\ invocation = NoInvocation

NextApproval ==
  \/ Tick
  \/ \E id \in RequestIds : Approve(id)
  \/ \E id \in RequestIds, notes \in {None, "spam"} : Reject(id, notes)
  \/ \E r \in BulkRequests : BulkApprove(r.is_json, r.ids)

SpecApproval == InitApproval /\ [][NextApproval]_vars

\* The public form and the operator's rejections, over the same stored rows.
NextIntake ==
  \/ \E p \in Procs, email \in Emails, lines \in Forms :
       SubmitStart(p, email, lines)
  \/ \E p \in Procs : SubmitLookup(p)
  \/ \E p \in Procs : SubmitInsert(p)
  \/ \E id \in RequestIds, notes \in {None, "spam"} : Reject(id, notes)

InitIntake == InitApproval /\ remote_list = {"u1"}

SpecIntake == InitIntake /\ [][NextIntake]_vars

\* Every operation on submissions, by one worker: the stored rows are those of
\* InitApproval, with or without the ListMember of a resolved user.
InitLifecycle ==
  /\ now = 0
  /\ sync_logs = <<>>
  /\ submissions \in ApprovalSetups
  /\ list_members \in
       {{}} \cup {{LinkedMember(sub)} :
                    sub \in {x \in submissions : x.twitter_user_id # None}}
  /\ next_member_id = Cardinality(list_members) + 1
  /\ pc = [p \in Procs |-> "idle"]
  /\ log_id = [p \in Procs |-> 0]
  /\ twitter_members = [p \in Procs |-> <<>>]
  /\ sess = [p \in Procs |-> EmptySession]
  /\ stats = [p \in Procs |-> NewStats]
  /\ outcome = [p \in Procs |-> NoOutcome]
  /\ calls = [p \in Procs |-> 0]
  /\ can_sync_result = NotCalled
  /\ remote_list = {sub.twitter_user_id : sub \in submissions} \ {None}
  /\ rate_limit = NoRateLimit
  /\ last = NoRequest
  /\ lookups_ok = [id \in SubmissionIdRange |-> 0]
  /\ next_submission_id = FirstFreeId
  /\ submit = [p \in Procs |-> NoSubmit]
  /\ invocation = NoInvocation

Worker == "w1"

\* The submission whose life is followed, and the one that replaces it.
LifecycleIds == {1, FirstFreeId}

NextLifecycle ==
  \/ \E id \in LifecycleIds : Approve(id)
  \/ \E id \in LifecycleIds : Reject(id, "spam")
  \/ \E id \in LifecycleIds : BulkApprove(TRUE, <<id>>)
  \/ \E id \in LifecycleIds : Remove(id)
  \/ \E member_id \in MemberRequestIds : RemoveMember(member_id)
  \/ \E lines \in Forms : SubmitStart(Worker, "s@x.org", lines)
  \/ SubmitLookup(Worker)
  \/ SubmitInsert(Worker)

SpecLifecycle == InitLifecycle /\ [][NextLifecycle]_vars

\* ------------------------------------------------------------------ claims
CooloffSeconds == SYNC_COOLOFF_MINUTES * SecondsPerMinute

FetchedIds(p) == {twitter_members[p][i].id : i \in DOMAIN twitter_members[p]}

DistinctIds(members) ==
  \A i, j \in DOMAIN members : members[i].id = members[j].id => i = j

\* Worker p's call returns its counts in this step.
Completes(p) == pc[p] = "applied" /\ pc'[p] = "done" /\ outcome'[p].kind = "returned"

\* Worker p's call raises in this step.
Raises(p, stage) ==
  pc[p] # "done" /\ pc'[p] = "done" /\ outcome'[p].failed_at = stage

\* C1: a run that completes on a fetch result with pairwise-distinct ids has
\* classified as added exactly the remote ids without a local record and as
\* removed exactly the local ids absent remotely, and its counts satisfy
\* added + updated + unchanged = fetched and removed = |local \ remote|.
C1_DiffComplete ==
  [][\A p \in Procs :
       (Completes(p) /\ DistinctIds(twitter_members[p])) =>
         LET remote == FetchedIds(p)
             local == MemberUserIds(Range(sess[p].orig))
             result == outcome'[p].result
         IN /\ stats[p].added_ids = remote \ local
            /\ stats[p].removed_ids = local \ remote
            /\ result.members_fetched = Len(twitter_members[p])
            /\ result.members_added + result.members_updated + stats[p].unchanged
                 = result.members_fetched
            /\ result.members_added = Cardinality(remote \ local)
            /\ result.members_removed = Cardinality(local \ remote)]_vars

C1_Witness ==
  \E p \in Procs :
    /\ outcome[p].kind = "returned"
    /\ outcome[p].result.members_added = 1
    /\ outcome[p].result.members_removed = 1

\* Every ListMember carries a username and name the run's fetch returned for it.
MatchesFetch(rows, members) ==
  /\ MemberUserIds(rows) = {members[i].id : i \in DOMAIN members}
  /\ \A m \in rows : \E i \in DOMAIN members :
       /\ members[i].id = m.twitter_user_id
       /\ members[i].username = m.username
       /\ members[i].name = m.name

\* C2 as claimed: no two ListMembers share a user id, and after any run that
\* completes the ListMembers are exactly the users its fetch returned.
C2_Original ==
  /\ []UniqueUserIds(list_members)
  /\ [][\A p \in Procs :
          Completes(p) => MatchesFetch(list_members', twitter_members[p])]_vars

\* C2 (amended): no two ListMembers share a user id, and after a run that
\* completes with list_members untouched by others between its snapshot and
\* its commit, the ListMembers are exactly the users its fetch returned, each
\* with a username and name the fetch returned.
C2_UniqueAndSynced ==
  /\ []UniqueUserIds(list_members)
  /\ [][\A p \in Procs :
          (Completes(p) /\ list_members = Range(sess[p].orig)) =>
            MatchesFetch(list_members', twitter_members[p])]_vars

C2_Witness ==
  \E p \in Procs :
    /\ outcome[p].kind = "returned"
    /\ outcome[p].result.members_updated = 1
    /\ Cardinality(list_members) = 2

InProgress == {i \in DOMAIN sync_logs : sync_logs[i].status = STATUS_IN_PROGRESS}

\* Some SyncRun started less than the cooloff interval ago.
RecentRun ==
  \E i \in DOMAIN sync_logs : now - sync_logs[i].sync_started_at < CooloffSeconds

\* C3 as claimed: never two SyncRuns in_progress, and no two SyncRuns with
\* start times closer than the cooloff interval.
C3_Original ==
  /\ Cardinality(InProgress) <= 1
  /\ \A i, j \in DOMAIN sync_logs :
       i # j => \/ sync_logs[i].sync_started_at - sync_logs[j].sync_started_at
                     >= CooloffSeconds
                \/ sync_logs[j].sync_started_at - sync_logs[i].sync_started_at
                     >= CooloffSeconds

\* C3 (amended): an invocation whose cooloff check runs when a SyncRun that
\* started less than the cooloff interval ago is already committed observes it
\* and declines: it raises the cooloff error and creates no SyncRun.
C3_LateCheckDeclines ==
  [][\A p \in Procs :
       (pc[p] \in {"idle", "done"} /\ pc'[p] # pc[p] /\ RecentRun) =>
         /\ pc'[p] = "done"
         /\ outcome'[p].error = "cooloff"
         /\ sync_logs' = sync_logs]_vars

C3_Witness ==
  \E p, q \in Procs :
    /\ p # q
    /\ outcome[p].error = "cooloff"
    /\ pc[q] \in {"created", "applied"}
    /\ sync_logs[log_id[q]].status = STATUS_IN_PROGRESS

\* Worker p's call has created its SyncRun and not yet been re-entered.
HasRun(p) ==
  \/ pc[p] \in {"created", "applied"}
  \/ pc[p] = "done" /\ outcome[p].failed_at # "check"

\* C4 as claimed: every invocation creates exactly one SyncRun.
C4_Original ==
  \A p \in Procs : pc[p] = "done" => log_id[p] \in DOMAIN sync_logs

\* C4 (amended): an invocation that passes the cooloff check creates exactly
\* one SyncRun, in_progress, persisted before any remote call is issued; an
\* invocation refused by the cooloff creates none.
C4_OneRunBeforeRemote ==
  /\ [](\A p \in Procs :
          /\ HasRun(p) => log_id[p] \in DOMAIN sync_logs
          /\ calls[p] > 0 => log_id[p] \in DOMAIN sync_logs
          /\ pc[p] = "created" =>
               /\ sync_logs[log_id[p]].status = STATUS_IN_PROGRESS
               /\ calls[p] = 0
          /\ outcome[p].failed_at = "check" => log_id[p] = 0
          /\ \A q \in Procs : (p # q /\ log_id[p] # 0) => log_id[p] # log_id[q])
  /\ [][Len(sync_logs') # Len(sync_logs) =>
          /\ Len(sync_logs') = Len(sync_logs) + 1
          /\ \E p \in Procs : /\ pc[p] = "checked" /\ pc'[p] = "created"
                              /\ log_id'[p] = Len(sync_logs')
                              /\ calls[p] = 0]_vars

C4_Witness ==
  \E p \in Procs :
    /\ pc[p] = "applied"
    /\ calls[p] = 1
    /\ sync_logs[log_id[p]].status = STATUS_IN_PROGRESS
    /\ sync_logs[log_id[p]].members_fetched = 2

\* C5: once the call has returned or raised after creating its SyncRun, the
\* SyncRun is completed with a completion time and the counts returned, or
\* failed with a completion time and an error detail.
C5_Finalized ==
  \A p \in Procs :
    (pc[p] = "done" /\ log_id[p] \in DOMAIN sync_logs) =>
      LET log == sync_logs[log_id[p]] IN
      \/ /\ outcome[p].kind = "returned"
         /\ log.status = STATUS_COMPLETED
         /\ log.sync_completed_at # NoTime
         /\ log.members_fetched = outcome[p].result.members_fetched
         /\ log.members_added = outcome[p].result.members_added
         /\ log.members_updated = outcome[p].result.members_updated
         /\ log.members_removed = outcome[p].result.members_removed
      \/ /\ outcome[p].kind = "raised"
         /\ log.status = STATUS_FAILED
         /\ log.sync_completed_at # NoTime
         /\ log.error_message # None

\* C6: a run that fails after its fetch succeeded leaves list_members as it was.
C6_FailedRunWritesNothing ==
  [][\A p \in Procs :
       (Raises(p, "diff") \/ Raises(p, "commit")) => list_members' = list_members]_vars

\* C7: when get_list_members fails the run goes straight to failed, with the
\* error and a completion time recorded, the failure is raised to the caller,
\* and no ListMember is inserted, updated or deleted.
C7_FetchFailure ==
  /\ [](\A p \in Procs :
          (pc[p] = "done" /\ outcome[p].failed_at = "fetch") =>
            /\ outcome[p].kind = "raised"
            /\ outcome[p].error \in {FetchError(f) : f \in FetchFaults}
            /\ sync_logs[log_id[p]].status = STATUS_FAILED
            /\ sync_logs[log_id[p]].error_message = outcome[p].error
            /\ sync_logs[log_id[p]].sync_completed_at # NoTime
            /\ sync_logs[log_id[p]].members_added = 0
            /\ sync_logs[log_id[p]].members_removed = 0)
  /\ [][\A p \in Procs :
          Raises(p, "fetch") =>
            /\ pc[p] = "created"
            /\ list_members' = list_members
            /\ next_member_id' = next_member_id]_vars

C7_Witness ==
  \E p \in Procs :
    /\ pc[p] = "done"
    /\ outcome[p].failed_at = "fetch"
    /\ list_members # {}
    /\ sync_logs[log_id[p]].status = STATUS_FAILED

\* C9: with the cooloff active the call raises the cooloff error at once: it
\* issues no remote call, creates no SyncRun, and changes no ListMember and
\* no Submission.
C9_CooloffFailsFast ==
  /\ [](\A p \in Procs :
          outcome[p].failed_at = "check" =>
            /\ pc[p] = "done"
            /\ outcome[p].kind = "raised"
            /\ outcome[p].error = "cooloff"
            /\ calls[p] = 0
            /\ sess[p] = EmptySession)
  /\ [][\A p \in Procs :
          Raises(p, "check") =>
            /\ RecentRun
            /\ list_members' = list_members
            /\ submissions' = submissions
            /\ sync_logs' = sync_logs]_vars

C9_Witness ==
  \E p \in Procs :
    /\ outcome[p].failed_at = "check"
    /\ list_members # {}
    /\ submissions # {}

\* The instants at which a stored run started.
StartTimes == {sync_logs[i].sync_started_at : i \in DOMAIN sync_logs}

\* C10: can_sync allows when no run is stored, and otherwise allows exactly
\* when the latest start among the stored runs lies at least the cooloff
\* interval before now; at the edge of the interval it allows.
C10_CooloffBoundary ==
  can_sync_result.called =>
    (can_sync_result.allowed <=>
       \A start \in StartTimes : now - start >= CooloffSeconds)

C10_Witness ==
  /\ can_sync_result.called
  /\ can_sync_result.allowed
  /\ Len(sync_logs) = 2
  /\ sync_logs[1].sync_started_at > sync_logs[2].sync_started_at
  /\ now - sync_logs[1].sync_started_at = CooloffSeconds

\* C8 as claimed: an approve request on a pending submission whose user id
\* was resolved and whose add_to_list call succeeded answers success and
\* leaves the submission approved, with its user id and processing time set.
C8_ApproveSucceeds ==
  (last.op = "approve" /\ last.was_pending /\ last.lookup_ok /\ last.add_ok) =>
    /\ last.success
    /\ \A sub \in submissions :
         sub.id = last.id =>
           /\ sub.status = STATUS_APPROVED
           /\ sub.twitter_user_id # None
           /\ sub.processed_at # NoTime

\* The wait left before can_sync allows again, in seconds.
RemainingSeconds ==
  CooloffSeconds - (now - sync_logs[LastSync(sync_logs)].sync_started_at)

\* C11 as claimed: when can_sync refuses, waiting the number of minutes its
\* message names is enough for it to allow: minutes * 60 >= remaining seconds.
C11_MinutesSuffice ==
  (can_sync_result.called /\ ~can_sync_result.allowed) =>
    can_sync_result.minutes * SecondsPerMinute >= RemainingSeconds

\* Some stored run that did not complete started less than the cooloff
\* interval ago: one that failed, or one left in_progress.
RecentUnfinishedRun ==
  \E i \in DOMAIN sync_logs :
    /\ sync_logs[i].status \in {STATUS_FAILED, STATUS_IN_PROGRESS}
    /\ now - sync_logs[i].sync_started_at < CooloffSeconds

\* C12: a failed run, or one left in_progress by a killed worker, counts toward
\* the cooloff: an invocation made less than the cooloff interval after its
\* start is refused with the cooloff error and creates no SyncRun.
C12_UnfinishedRunCounts ==
  [][\A p \in Procs :
       (pc[p] \in {"idle", "done"} /\ pc'[p] # pc[p] /\ RecentUnfinishedRun) =>
         /\ pc'[p] = "done"
         /\ outcome'[p].kind = "raised"
         /\ outcome'[p].failed_at = "check"
         /\ Len(sync_logs') = Len(sync_logs)]_vars

\* Every worker was refused while the only stored run is an in_progress row:
\* the worker that created it was killed and then refused itself.
C12_Witness ==
  /\ Len(sync_logs) = 1
  /\ sync_logs[1].status = STATUS_IN_PROGRESS
  /\ \A p \in Procs : pc[p] = "done" /\ outcome[p].failed_at = "check"

\* The step is an approve request for submission sub.
ApproveOf(sub) == last' # last /\ last'.op = "approve" /\ last'.id = sub.id

\* C13: approve on a submission that is approved or rejected answers 400,
\* issues neither get_user_id nor add_to_list, and changes neither the
\* submission nor the remote list.
C13_ApproveNeedsPending ==
  [][\A sub \in submissions :
       (ApproveOf(sub) /\ sub.status \in {STATUS_APPROVED, STATUS_REJECTED}) =>
         /\ last'.http = HTTP_BAD_REQUEST
         /\ ~last'.success
         /\ last'.lookups = 0
         /\ last'.adds = 0
         /\ submissions' = submissions
         /\ remote_list' = remote_list
         /\ rate_limit' = rate_limit]_vars

\* An approve request was refused for a rejected submission while another
\* submission is approved.
C13_Witness ==
  /\ last.op = "approve"
  /\ last.http = HTTP_BAD_REQUEST
  /\ \E sub \in submissions : sub.id = last.id /\ sub.status = STATUS_REJECTED
  /\ \E sub \in submissions : sub.status = STATUS_APPROVED

\* C14: approve calls get_user_id exactly when the pending submission has no
\* cached user id; an id it returns is stored on the submission whatever
\* add_to_list answers; so no submission sees more than one get_user_id call
\* that returned an id, and an attempt on a cached id issues only add_to_list.
C14_LookupOnce ==
  /\ [](\A id \in SubmissionIdRange : lookups_ok[id] <= 1)
  /\ [][\A sub \in submissions :
          (ApproveOf(sub) /\ sub.status = STATUS_PENDING) =>
            /\ last'.lookups = IF sub.twitter_user_id = None THEN 1 ELSE 0
            /\ (last'.lookups = 0 => last'.adds = 1)
            /\ (last'.lookups = 1 /\ last'.lookup_ok) =>
                 \E s \in submissions' :
                   /\ s.id = sub.id
                   /\ s.twitter_user_id = AccountOf(sub.twitter_handle)
                   /\ s.twitter_user_id # None]_vars

\* A second attempt on a submission whose id was resolved by the first, and
\* whose add_to_list call failed again.
C14_Witness ==
  /\ last.op = "approve"
  /\ last.lookups = 0
  /\ last.adds = 1
  /\ ~last.add_ok
  /\ last.id \in SubmissionIdRange
  /\ lookups_ok[last.id] = 1

\* C15: when add_to_list is answered 429 during approve, the request fails with
\* the rate-limit error, the submission stays pending without a processing
\* time, and the remote list is unchanged.
C15_RateLimitedAddStaysPending ==
  [][\A sub \in submissions :
       (ApproveOf(sub) /\ last'.add_status = HTTP_RATE_LIMITED) =>
         /\ ~last'.success
         /\ last'.http = HTTP_SERVER_ERROR
         /\ last'.error = "rate limit exceeded"
         /\ remote_list' = remote_list
         /\ \E s \in submissions' :
              /\ s.id = sub.id
              /\ s.status = STATUS_PENDING
              /\ s.processed_at = NoTime]_vars

C15_Witness ==
  /\ last.op = "approve"
  /\ last.add_status = HTTP_RATE_LIMITED
  /\ last.lookups = 1
  /\ \E s \in submissions : s.id = last.id /\ s.twitter_user_id = "u1"

\* C16 as claimed: when a call made by approve is answered 429 with a reset
\* time, the session records the rate limit as active until that reset time.
C16_ResetTimeRecorded ==
  (last.op = "approve" /\ last.throttled_until # NoTime) =>
    /\ rate_limit.rate_limit_active
    /\ rate_limit.rate_limit_reset = last.throttled_until

\* The step is a bulk-approve request that entered its loop.
BulkStep == last' # last /\ last'.op = "bulk_approve" /\ last'.http = HTTP_OK

\* C17: bulk_approve reports the given ids in the order given, one entry for
\* each id given;
\* an id whose submission is pending is attempted whatever happened to the ids
\* before it; and what an earlier id committed (its resolved user id, its
\* approval) is still stored at the end whatever the later ids do.
C17_BulkIndependent ==
  [][BulkStep =>
       LET results == last'.results IN
       /\ results # <<>>
       /\ Len(results) = Len(last'.ids)
       /\ \A i \in DOMAIN results :
            /\ results[i].id = last'.ids[i]
            /\ \A sub \in submissions :
                 ( /\ sub.id = results[i].id
                   /\ sub.status = STATUS_PENDING
                   /\ \A j \in 1..(i - 1) : results[j].id # sub.id ) =>
                     /\ results[i].lookups + results[i].adds >= 1
                     /\ results[i].lookups =
                          IF sub.twitter_user_id = None THEN 1 ELSE 0
            /\ \A sub \in submissions' :
                 sub.id = results[i].id =>
                   /\ results[i].adds = 1 => sub.twitter_user_id # None
                   /\ results[i].ok => sub.status = STATUS_APPROVED
            /\ results[i].id \notin SubmissionIds =>
                 /\ ~results[i].ok
                 /\ results[i].lookups + results[i].adds = 0
       /\ last'.success = (\A i \in DOMAIN results : results[i].ok)]_vars

\* A request for two pending submissions whose first id failed at
\* get_user_id and whose second id was still looked up and added.
C17_Witness ==
  /\ last.op = "bulk_approve"
  /\ Len(last.results) = 2
  /\ last.results[1].id # last.results[2].id
  /\ last.results[1].lookups = 1
  /\ last.results[1].adds = 0
  /\ last.results[2].lookups = 1
  /\ last.results[2].adds = 1
\* C18: no two stored submissions carry the same handle, the handle being the
\* normalized one that Submission stores, whatever forms are submitted,
\* rejected and submitted again, by requests that overlap or not.
C18_OnePerHandle ==
  \A s1 \in submissions, s2 \in submissions :
    s1.twitter_handle = s2.twitter_handle => s1 = s2

\* Two requests for one handle overlapped: one stored its submission, the
\* other lost the INSERT to the unique index.
C18_Witness ==
  /\ \E p \in Procs : submit[p].result = "failed"
  /\ \E sub \in submissions : sub.id >= FirstFreeId /\ sub.status = STATUS_PENDING

\* The handle a request is at, as the form gave it and as it is stored.
SubmittedHandle(p) == normalize_handle(Head(submit[p].handles))

\* The two steps of a request for one handle.
LookupStep(p) == submit[p].pc = "lookup" /\ submit'[p] # submit[p]

InsertStep(p) == submit[p].pc = "insert" /\ submit'[p] # submit[p]

\* A request whose handle has a pending or approved submission skips the
\* handle and leaves every stored submission as it was.
SkipsExisting(p) ==
  ( /\ LookupStep(p)
    /\ \E sub \in submissions :
         /\ sub.twitter_handle = SubmittedHandle(p)
         /\ sub.status \in {STATUS_PENDING, STATUS_APPROVED} ) =>
      /\ submit'[p].result = "skipped"
      /\ submit'[p].pc # "insert"
      /\ submissions' = submissions

\* The rejected submission found is gone and the handle has one submission, a
\* new pending one with no user id, no processed_at and no notes.
Replaced(p) ==
  /\ submit'[p].result = "success"
  /\ \A sub \in submissions' : sub.id # submit[p].existing
  /\ \E new \in submissions' :
       /\ new.id \notin {sub.id : sub \in submissions}
       /\ new.twitter_handle = SubmittedHandle(p)
       /\ new.status = STATUS_PENDING
       /\ new.twitter_user_id = None
       /\ new.processed_at = NoTime
       /\ new.notes = None
       /\ \A sub \in submissions' :
            sub.twitter_handle = new.twitter_handle => sub = new

\* The rejected submission a request found is still the handle's one.
StillRejected(p) ==
  /\ \E sub \in submissions : sub.id = submit[p].existing
  /\ \A sub \in submissions :
       sub.twitter_handle = SubmittedHandle(p) => sub.id = submit[p].existing

\* C19 as claimed: a handle with a pending or approved submission is skipped
\* and that submission is unchanged; a handle whose submission was found
\* rejected is always stored anew, as a fresh pending submission.
C19_Original ==
  [][\A p \in Procs :
       /\ SkipsExisting(p)
       /\ (InsertStep(p) /\ submit[p].existing # NoId) => Replaced(p)]_vars

\* C19: a handle with a pending or approved submission is skipped and that
\* submission is unchanged; a handle whose submission was found rejected is
\* stored anew, as a fresh pending submission, when that rejected submission
\* is still the handle's one at the commit; when another request replaced it
\* first, the handle is reported failed and the stored submissions stay.
C19_SkipOrReplace ==
  [][\A p \in Procs :
       /\ SkipsExisting(p)
       /\ (InsertStep(p) /\ submit[p].existing # NoId) =>
            IF StillRejected(p) THEN Replaced(p)
            ELSE submit'[p].result = "failed" /\ submissions' = submissions]_vars

\* One request replaced the rejected submission 1, and another one skipped a
\* handle because of a stored submission.
C19_Witness ==
  /\ \E p \in Procs, q \in Procs :
       submit[p].result = "success" /\ submit[q].result = "skipped"
  /\ \A sub \in submissions : sub.id # 1
  /\ \E sub \in submissions : sub.twitter_handle = <<"a">> /\ sub.id >= FirstFreeId

\* A submission created by the step is pending, and one deleted by the step
\* was rejected and leaves a new pending submission for its handle.
OnlyRejectedReplaced ==
  LET StoredIds == {sub.id : sub \in submissions}
      StoredIdsAfter == {sub.id : sub \in submissions'}
  IN
  /\ \A new \in submissions' :
       new.id \notin StoredIds => new.status = STATUS_PENDING
  /\ \A sub \in submissions :
       sub.id \notin StoredIdsAfter =>
         /\ sub.status = STATUS_REJECTED
         /\ \E new \in submissions' :
              /\ new.id \notin StoredIds
              /\ new.twitter_handle = sub.twitter_handle
              /\ new.status = STATUS_PENDING

\* C20 as claimed: the status of a stored submission changes only from pending,
\* to approved or to rejected; a rejected one is only deleted and replaced.
C20_Original ==
  [][/\ \A sub \in submissions, new \in submissions' :
          (sub.id = new.id /\ sub.status # new.status) =>
             /\ sub.status = STATUS_PENDING
             /\ new.status \in {STATUS_APPROVED, STATUS_REJECTED}
     /\ OnlyRejectedReplaced]_vars

\* C20: the status of a stored submission changes from pending to approved or
\* to rejected, or from approved to rejected when remove or remove_member
\* takes its user off the list; a rejected one never changes status, and it
\* is only deleted when a new pending submission replaces it.
C20_Transitions ==
  [][/\ \A sub \in submissions, new \in submissions' :
          (sub.id = new.id /\ sub.status # new.status) =>
             \/ /\ sub.status = STATUS_PENDING
                /\ new.status \in {STATUS_APPROVED, STATUS_REJECTED}
             \/ /\ sub.status = STATUS_APPROVED
                /\ new.status = STATUS_REJECTED
                /\ new.notes = REMOVED_NOTES
                /\ last'.op \in {"remove", "remove_member"}
                /\ last'.success
     /\ OnlyRejectedReplaced]_vars

\* An approved submission was removed from the list and is now rejected.
C20_Witness ==
  /\ last.op \in {"remove", "remove_member"}
  /\ last.success
  /\ \E sub \in submissions :
       /\ sub.id = 1
       /\ sub.status = STATUS_REJECTED
       /\ sub.notes = REMOVED_NOTES
       /\ sub.twitter_user_id = "u1"

\* C21: a reject request for a pending submission stores it rejected, with
\* the notes given (its former notes when none are given) and the time of the
\* request as processed_at, and calls the remote for nothing; for a submission
\* that is not pending it answers 400 and stores nothing.
C21_Reject ==
  [][(last' # last /\ last'.op = "reject") =>
       /\ last'.lookups = 0 /\ last'.adds = 0
       /\ remote_list' = remote_list /\ rate_limit' = rate_limit
       /\ \A sub \in submissions :
            sub.id = last'.id =>
              IF sub.status = STATUS_PENDING
              THEN /\ last'.success /\ last'.http = HTTP_OK
                   /\ \E new \in submissions' :
                        /\ new.id = sub.id
                        /\ new.status = STATUS_REJECTED
                        /\ new.processed_at = now
                        /\ new.notes = IF last'.notes # None THEN last'.notes
                                       ELSE sub.notes
                        /\ new.twitter_user_id = sub.twitter_user_id
                        /\ new.twitter_handle = sub.twitter_handle
                        /\ new.email = sub.email
                        /\ submissions' = (submissions \ {sub}) \cup {new}
              ELSE /\ ~last'.success /\ last'.http = HTTP_BAD_REQUEST
                   /\ submissions' = submissions]_vars

\* A pending submission was rejected with notes after the clock had moved.
C21_Witness ==
  /\ last.op = "reject" /\ last.success /\ last.notes = "spam"
  /\ \E sub \in submissions :
       /\ sub.id = last.id
       /\ sub.status = STATUS_REJECTED
       /\ sub.notes = "spam"
       /\ sub.processed_at = now
       /\ now > 0

\* C22: remove_member for a stored ListMember, when the remote answers 200 or
\* 404, deletes the ListMember and stores the submission it refers to, if any,
\* as rejected with the note 'Removed from list by admin', in the same step;
\* on any other answer the ListMember and the submissions stay as they were.
C22_RemoveMember ==
  [][(last' # last /\ last'.op = "remove_member") =>
       \A member \in list_members :
         member.id = last'.id =>
           IF last'.remove_status \in {HTTP_OK, HTTP_NOT_FOUND}
           THEN /\ last'.success /\ last'.http = HTTP_OK
                /\ list_members' = list_members \ {member}
                /\ {sub.id : sub \in submissions'} = {sub.id : sub \in submissions}
                /\ \A sub \in submissions :
                     IF sub.id = member.submission_id
                     THEN [sub EXCEPT !.status = STATUS_REJECTED,
                                      !.notes = REMOVED_NOTES,
                                      !.processed_at = now] \in submissions'
                     ELSE sub \in submissions'
           ELSE /\ ~last'.success /\ last'.http = HTTP_SERVER_ERROR
                /\ list_members' = list_members
                /\ submissions' = submissions]_vars

\* The remote answered 404 to the removal of a member that a submission
\* refers to: the member is gone and the submission is rejected.
C22_Witness ==
  /\ last.op = "remove_member" /\ last.success
  /\ last.remove_status = HTTP_NOT_FOUND
  /\ \A member \in list_members : member.id # last.id
  /\ \E sub \in submissions :
       sub.id = 1 /\ sub.status = STATUS_REJECTED /\ sub.notes = REMOVED_NOTES

\* C23: add_to_list returns success exactly on a 200 and on a 403 that says
\* "already a member"; the remote list gains the user on a 200 and is
\* unchanged otherwise; and an approve request repeated for a user already
\* added, answered "already a member", leaves the stored submissions and the
\* remote list as the first request left them.
C23_AddIdempotent ==
  [][\A sub \in submissions :
       (ApproveOf(sub) /\ last'.adds = 1) =>
         /\ last'.add_ok =
              \/ last'.add_status = HTTP_OK
              \/ /\ last'.add_status = HTTP_FORBIDDEN
                 /\ last'.add_message = ALREADY_A_MEMBER
         /\ \E new \in submissions' :
              /\ new.id = sub.id
              /\ remote_list' = IF last'.add_status = HTTP_OK
                                THEN remote_list \cup {new.twitter_user_id}
                                ELSE remote_list
         /\ ( /\ last'.add_message = ALREADY_A_MEMBER
              /\ sub.twitter_user_id # None ) =>
                /\ submissions' = submissions
                /\ sub.twitter_user_id \in remote_list']_vars

\* A first approve request resolved and added the user; a second one for the
\* same submission was answered "already a member" and add_to_list returned.
C23_Witness ==
  /\ last.op = "approve" /\ last.lookups = 0 /\ last.adds = 1
  /\ last.add_message = ALREADY_A_MEMBER /\ last.add_ok
  /\ last.id \in DOMAIN lookups_ok /\ lookups_ok[last.id] = 1

\* C24: remove_from_list returns success exactly on a 200 and on a 404; on a
\* 200 the user leaves the remote list, on a 404 and on every error the list
\* is unchanged; a 429 is an error.
C24_RemoveIdempotent ==
  [][( /\ last' # last
       /\ last'.op \in {"remove", "remove_member"}
       /\ last'.remove_status # NoStatus ) =>
       LET user_ids ==
             IF last'.op = "remove"
             THEN {sub.twitter_user_id : sub \in {x \in submissions : x.id = last'.id}}
             ELSE {m.twitter_user_id : m \in {x \in list_members : x.id = last'.id}}
       IN /\ last'.success = (last'.remove_status \in {HTTP_OK, HTTP_NOT_FOUND})
          /\ last'.remove_status = HTTP_RATE_LIMITED => last'.http = HTTP_SERVER_ERROR
          /\ remote_list' = IF last'.remove_status = HTTP_OK
                            THEN remote_list \ user_ids ELSE remote_list]_vars

\* A user already taken off the remote list was removed again, the remote
\* answered 404 and the call returned success.
C24_Witness ==
  /\ last.op = "remove_member" /\ last.remove_status = HTTP_NOT_FOUND
  /\ last.success
  /\ "u1" \notin remote_list
  /\ \E sub \in submissions : sub.twitter_user_id = "u1"

\* The data of the first n pages of a script, in page order.
RECURSIVE PagesData(_, _)
PagesData(script, n) ==
  IF n = 0 THEN <<>> ELSE PagesData(script, n - 1) \o script[n].data

\* The first page of the script that fails or carries no continuation token.
LastRequested(script) ==
  CHOOSE n \in DOMAIN script :
    /\ script[n].status # HTTP_OK \/ script[n].next_token \in {None, ""}
    /\ \A i \in 1..(n - 1) :
         script[i].status = HTTP_OK /\ script[i].next_token \notin {None, ""}

\* C25: get_list_members asks for pages until one carries no token and returns
\* the members of the pages asked for, in page order; when the request of a
\* page fails it raises and returns nothing, after any number of pages.
C25_Pagination ==
  (invocation.method = "get_list_members" /\ invocation.done) =>
    LET script == invocation.input
        n == LastRequested(script)
        r == invocation.result
    IN /\ r.requests = n
       /\ IF script[n].status = HTTP_OK
          THEN r.ok /\ r.members = PagesData(script, n)
          ELSE ~r.ok /\ r.members = <<>> /\ r.error # None

\* A list served in three pages came back whole, in page order.
C25_Witness ==
  /\ invocation.method = "get_list_members" /\ invocation.done
  /\ Len(invocation.input) = 3
  /\ invocation.result.ok
  /\ Len(invocation.result.members) = 3
  /\ invocation.result.members[1] # invocation.result.members[2]

\* C26: every stored ListMember, each one inserted by a run, has the
\* provenance pre_existing and no submission_id when no submission has its
\* user id; otherwise its submission_id is that of such a submission and its
\* provenance is bulk_added when that submission's email is the batch-import
\* marker and app_submitted when it is not.
C26_Provenance ==
  \A m \in list_members :
    LET subs == {sub \in submissions : sub.twitter_user_id = m.twitter_user_id} IN
    IF subs = {}
    THEN m.source = SOURCE_PRE_EXISTING /\ m.submission_id = NoId
    ELSE \E sub \in subs :
           /\ m.submission_id = sub.id
           /\ m.source = IF sub.email = BULK_EMAIL THEN SOURCE_BULK_ADDED
                         ELSE SOURCE_APP_SUBMITTED

\* A completed run added two members, one of a batch-import submission and
\* one that no submission refers to.
C26_Witness ==
  /\ \E i \in DOMAIN sync_logs :
       sync_logs[i].status = STATUS_COMPLETED /\ sync_logs[i].members_added = 2
  /\ \E m1 \in list_members, m2 \in list_members :
       /\ m1.source = SOURCE_BULK_ADDED /\ m1.submission_id = 1
       /\ m2.source = SOURCE_PRE_EXISTING /\ m2.submission_id = NoId

\* C27: on a fetch result without a repeated user id, a fetched member that
\* has a stored row leaves that row with the fetched username and name and
\* the time of the run as synced_at, its source, submission_id and added_at
\* as they were; the run counts as updated the fetched members whose stored
\* username or name differs, and as unchanged the others that have a row.
C27_UpdatedOrUnchanged ==
  ( /\ invocation.method = "diff" /\ invocation.done
    /\ DistinctIds(invocation.input.members) ) =>
    LET members == invocation.input.members
        rows == invocation.input.rows
        r == invocation.result
        known == {i \in DOMAIN members : \E row \in rows :
                    row.twitter_user_id = members[i].id}
        differs == {i \in known : \E row \in rows :
                      /\ row.twitter_user_id = members[i].id
                      /\ \/ row.username # members[i].username
                         \/ row.name # members[i].name}
    IN /\ r.ok
       /\ r.stats.members_updated = Cardinality(differs)
       /\ r.stats.unchanged = Cardinality(known \ differs)
       /\ \A i \in known : \A row \in rows :
            row.twitter_user_id = members[i].id =>
              [row EXCEPT !.username = members[i].username,
                          !.name = members[i].name,
                          !.synced_at = now] \in r.rows

\* Scenario B, and a display name changed: the row of u1 (alice, Al) met
\* alice2 in one fetch and Ally in another, each counted as one update.
C27_Witness ==
  /\ invocation.method = "diff" /\ invocation.done
  /\ invocation.result.stats.members_updated = 1
  /\ invocation.result.stats.unchanged = 1
  /\ \E row \in invocation.result.rows :
       /\ row.twitter_user_id = "u1" /\ row.name = "Ally"
       /\ row.synced_at = now /\ row.added_at = 0
       /\ row.source = SOURCE_APP_SUBMITTED /\ row.submission_id = 1


\* C28 as claimed: get_user_id reports its failure kinds apart: not found on
\* 404 and on an answer without data, rate limited on 429, and a network or
\* API error otherwise; and a lookup answered 429 with a reset header reports
\* that reset time.
C28_LookupFailureKinds ==
  (invocation.method = "get_user_id" /\ invocation.done) =>
    LET response == invocation.input.response
        result == invocation.result
        handle == LStrip(invocation.input.username, {"@"})
    IN /\ result.ok <=> (response.status = HTTP_OK /\ AccountOf(handle) # None)
       /\ result.ok => result.value = AccountOf(handle)
       /\ (response.status = HTTP_NOT_FOUND
             \/ (response.status = HTTP_OK /\ AccountOf(handle) = None))
            => result.error.kind = "not found"
       /\ response.status = HTTP_RATE_LIMITED
            => result.error.kind = "rate limit exceeded"
       /\ response.status = NetworkError => result.error.kind = "network error"
       /\ response.status = HTTP_SERVER_ERROR => result.error.kind = "api error"
       /\ (response.status = HTTP_RATE_LIMITED /\ response.reset # NoTime)
            => /\ result.error.resets_at = response.reset
               /\ result.reset = response.reset


\* C29 as claimed: every fetched record is classified against the rows as they
\* were before the run, a repeated user id included: the run counts as added
\* the records without a row, as updated those whose username or name differs
\* from the row as it was, and as unchanged the others.
C29_DiffFromSnapshot ==
  (invocation.method = "diff" /\ invocation.done) =>
    LET members == invocation.input.members
        rows == invocation.input.rows
        r == invocation.result
        known == {i \in DOMAIN members : \E row \in rows :
                    row.twitter_user_id = members[i].id}
        differs == {i \in known : \E row \in rows :
                      /\ row.twitter_user_id = members[i].id
                      /\ \/ row.username # members[i].username
                         \/ row.name # members[i].name}
    IN /\ r.stats.members_added = Cardinality(DOMAIN members \ known)
       /\ r.stats.members_updated = Cardinality(differs)
       /\ r.stats.unchanged = Cardinality(known \ differs)


\* C30 as claimed: when a remove or a remove_member request has succeeded, no
\* ListMember row of the user it removed from the remote list is stored.
C30_NoMemberAfterRemoval ==
  [][(last' # last /\ last'.success /\ last'.op \in {"remove", "remove_member"}) =>
       LET removed ==
             IF last'.op = "remove"
             THEN {sub.twitter_user_id : sub \in {s \in submissions : s.id = last'.id}}
             ELSE {m.twitter_user_id : m \in {x \in list_members : x.id = last'.id}}
       IN /\ removed # {}
          /\ \A member \in list_members' : member.twitter_user_id \notin removed]_vars


\* C31: no step of a sync run, whatever its outcome, changes table
\* submissions: no row is created or deleted, and every row keeps its status,
\* handle, cached user id and notes.
C31_SubmissionsUntouched ==
  [][(pc' # pc) =>
       /\ {sub.id : sub \in submissions'} = {sub.id : sub \in submissions}
       /\ \A sub \in submissions : \E new \in submissions' :
            /\ new.id = sub.id
            /\ new.status = sub.status
            /\ new.twitter_handle = sub.twitter_handle
            /\ new.twitter_user_id = sub.twitter_user_id
            /\ new.notes = sub.notes]_vars

\* A run completed that added a member and linked it to the stored
\* submission, which is still pending; and another run failed.
C31_Witness ==
  /\ \E i \in DOMAIN sync_logs :
       sync_logs[i].status = STATUS_COMPLETED /\ sync_logs[i].members_added = 1
  /\ \E i \in DOMAIN sync_logs : sync_logs[i].status = STATUS_FAILED
  /\ \E member \in list_members, sub \in submissions :
       member.submission_id = sub.id /\ sub.status = STATUS_PENDING


\* C32: a submission becomes approved only in an approve or bulk-approve
\* request whose add_to_list call for it returned; and a request on a pending
\* submission whose add_to_list call failed or was never made leaves that
\* submission pending.
C32_ApprovedOnlyAfterAdd ==
  [][/\ \A new \in submissions' :
          ( /\ new.status = STATUS_APPROVED
            /\ \A sub \in submissions :
                 sub.id = new.id => sub.status # STATUS_APPROVED ) =>
              \/ /\ last'.op = "approve" /\ last'.id = new.id
                 /\ last'.adds = 1 /\ last'.add_ok
              \/ /\ last'.op = "bulk_approve"
                 /\ \E i \in DOMAIN last'.results :
                      /\ last'.results[i].id = new.id
                      /\ last'.results[i].adds = 1 /\ last'.results[i].ok
     /\ ( /\ last' # last /\ last'.op = "approve" /\ last'.was_pending
          /\ ~(last'.adds = 1 /\ last'.add_ok) ) =>
            \A new \in submissions' :
              new.id = last'.id => new.status = STATUS_PENDING
     /\ (last' # last /\ last'.op = "bulk_approve") =>
            \A sub \in submissions, new \in submissions' :
              ( /\ sub.id = new.id /\ sub.status = STATUS_PENDING
                /\ \A i \in DOMAIN last'.results :
                     last'.results[i].id = sub.id =>
                       ~(last'.results[i].adds = 1 /\ last'.results[i].ok) ) =>
                  new.status = STATUS_PENDING]_vars

\* An approve request whose add_to_list call was answered 500 left the
\* submission pending; so did one whose lookup failed, which made no add call.
C32_Witness ==
  /\ last.op = "approve" /\ last.was_pending
  /\ \/ last.adds = 1 /\ ~last.add_ok /\ last.add_status = HTTP_SERVER_ERROR
     \/ last.adds = 0 /\ last.lookups = 1 /\ ~last.lookup_ok
  /\ \E sub \in submissions : sub.id = last.id /\ sub.status = STATUS_PENDING


\* C33: when a run has completed on a fetch result without a repeated user
\* id, a second run a cooloff interval later on the same fetch result, with
\* no other write to the store in between, completes, reports 0 added, 0
\* updated and 0 removed, and leaves the same ListMember rows but for
\* synced_at, which it sets to its own time on every row.
C33_SyncIdempotent ==
  ( /\ invocation.method = "sync_twice" /\ invocation.done
    /\ invocation.result.ok
    /\ DistinctIds(invocation.input.members) ) =>
    LET first == invocation.result
        second == invocation.result.again
    IN /\ second.ok
       /\ second.stats.members_added = 0
       /\ second.stats.members_updated = 0
       /\ second.stats.members_removed = 0
       /\ second.rows = {[row EXCEPT !.synced_at = second.at] : row \in first.rows}

\* The first run renamed u1, deleted u2 or added a member, and the second
\* run found nothing to do on the rows the first one left.
C33_Witness ==
  /\ invocation.method = "sync_twice" /\ invocation.done
  /\ invocation.result.ok
  /\ invocation.result.stats.members_added + invocation.result.stats.members_updated
       + invocation.result.stats.members_removed >= 2
  /\ invocation.result.rows # {}
  /\ invocation.result.again.ok
  /\ invocation.result.again.stats.unchanged = Cardinality(invocation.result.rows)
  /\ \A row \in invocation.result.again.rows : row.synced_at > row.added_at


\* C34: a SyncLog row is created in_progress and never deleted; its status
\* only changes from in_progress, to completed or to failed; a row that is
\* completed or failed is never written again, whatever runs later; and a
\* completed row has no error message.
C34_RunStatusFinal ==
  /\ [][\A i \in DOMAIN sync_logs' :
          IF i \in DOMAIN sync_logs
          THEN /\ sync_logs[i].status # STATUS_IN_PROGRESS =>
                    sync_logs'[i] = sync_logs[i]
               /\ sync_logs'[i].status # sync_logs[i].status =>
                    sync_logs'[i].status \in {STATUS_COMPLETED, STATUS_FAILED}
          ELSE sync_logs'[i].status = STATUS_IN_PROGRESS]_vars
  /\ [][DOMAIN sync_logs \subseteq DOMAIN sync_logs']_vars
  /\ [](\A i \in DOMAIN sync_logs :
          sync_logs[i].status = STATUS_COMPLETED =>
            sync_logs[i].error_message = None)

\* A run completed, and a run started after its completion has failed.
C34_Witness ==
  /\ Len(sync_logs) = 2
  /\ sync_logs[1].status = STATUS_COMPLETED
  /\ sync_logs[1].sync_completed_at # NoTime
  /\ sync_logs[2].status = STATUS_FAILED
  /\ sync_logs[2].error_message # None
  /\ sync_logs[2].sync_started_at > sync_logs[1].sync_completed_at


\* C35: when the remote serves a page without continuation token after
\* finitely many pages, or fails a request, get_list_members ends; it has then
\* issued as many requests as there are pages up to that one; it issues them
\* one at a time, the first without token and each later one with the token
\* the page before it carried, so that no page is asked for twice.
C35_PaginationEnds ==
  /\ <>(invocation.done)
  /\ [](invocation.done =>
          LET script == invocation.input
              st == invocation.result
          IN /\ st.requests = LastRequested(script)
             /\ Len(st.sent) = st.requests
             /\ \A k \in DOMAIN st.sent :
                  st.sent[k] = IF k = 1 THEN None ELSE script[k - 1].next_token
             /\ \A j, k \in DOMAIN st.sent : st.sent[j] = st.sent[k] => j = k)
  /\ [][/\ invocation'.result.requests = invocation.result.requests + 1
        /\ ~invocation.done]_vars

\* Three requests were issued for a list served in three pages, and the call
\* returned; in another call the third request failed and the call raised.
C35_Witness ==
  /\ invocation.method = "fetch_pages" /\ invocation.done
  /\ invocation.result.requests = 3
  /\ invocation.result.sent = <<None, "t1", "t2">>
  /\ \/ invocation.result.ok /\ Len(invocation.result.members) = 3
     \/ invocation.result.error # None /\ invocation.result.members = <<>>


\* C36 as claimed: what normalize_handle returns has no upper-case letter and
\* no leading sigil, and normalize_handle returns it unchanged when given it.
C36_NormalizeIdempotent ==
  (invocation.method = "normalize_handle" /\ invocation.done) =>
    LET once == invocation.result.once IN
    /\ \A i \in DOMAIN once : once[i] # "A"
    /\ once # <<>> => once[1] # "@"
    /\ invocation.result.twice = once

====
